---- MODULE Spec2Model ----
(***************************************************************************)
(* Model of the M3 cube encoder (Gif89aEncoder::encode_from_cube_data,     *)
(* crates/m3-gif/src/lib.rs) and of the structural validator               *)
(* (validate_gif_bytes, crates/ffi/src/lib.rs).                            *)
(*                                                                         *)
(* The encoder is a straight-line function that appends to one byte        *)
(* vector; each write_* call of the function is one action, taken in the   *)
(* order of the code (pc is the position in the function body).  Bytes     *)
(* are naturals in 0..255.                                                 *)
(***************************************************************************)
EXTENDS Naturals, Sequences, FiniteSets

\* the call in progress: its position, its loop counter, the bytes written so
\* far with the log of the blocks they form, and what it returned
VARIABLES pc, idx, gif_bytes, result, blocks

\* encode_from_cube_data(cube, fps_cs, loop_forever), and the validator's report
VARIABLES cube, fps_cs, loop_forever, validation

\* Gif89aEncoder { .. }.encode_gif(quantized_set) and its local optimized_palette
VARIABLES encoder, quantized_set, optimized_palette

\* m2_quantize_for_cube(frames_81_rgba): the frames of the argument, each
\* held by the name of its buffer; the thread-local generator's seed; the
\* locals of the call; and the results of earlier calls on the same input
VARIABLES frames_81_rgba, rng, centroids, clusters, iteration,
          global_palette_rgb, indexed_frames, delta_e_values, earlier

cube_vars == <<cube, fps_cs, loop_forever, validation>>

gif_vars == <<encoder, quantized_set, optimized_palette>>

quant_vars == <<frames_81_rgba, rng, centroids, clusters, iteration,
                global_palette_rgb, indexed_frames, delta_e_values, earlier>>

vars == <<pc, idx, gif_bytes, result, blocks, cube_vars, gif_vars, quant_vars>>

---------------------------------------------------------------------------
(* Bounds of the enumerated inputs *)

\* longest enumerated index plane
MaxPixels == 2

\* most attention maps handed to encode_gif
MaxAttentionMaps == 2

\* largest seed of the thread-local random generator
MaxSeed == 2

\* most zero bytes padding a candidate byte vector
MaxPadding == 2

---------------------------------------------------------------------------
(* Byte-level helpers *)

\* u16::to_le_bytes
LE16(v) == <<v % 256, (v \div 256) % 256>>

Min(a, b) == IF a < b THEN a ELSE b

\* vec![b; n]
Repeat(b, n) == [i \in 1..n |-> b]

\* slice.windows(len(pat)).any(|w| w == pat)
Contains(bytes, pat) ==
    \E i \in 1..(Len(bytes) + 1 - Len(pat)) :
        \A j \in 1..Len(pat) : bytes[i + j - 1] = pat[j]

\* iter().filter(|&&b| b == v).count()
CountByte(bytes, v) == Cardinality({i \in 1..Len(bytes) : bytes[i] = v})

\* b"GIF89a"
Gif89aSignature == <<71, 73, 70, 56, 57, 97>>

\* b"NETSCAPE2.0"
NetscapePattern == <<78, 69, 84, 83, 67, 65, 80, 69, 50, 46, 48>>

---------------------------------------------------------------------------
(* Gif89aEncoder: the pieces of encode_from_cube_data *)

\* faulty variant: the frame-count test written as an upper limit
FrameCountOk_AtMost(c) == Len(c.indexed_frames) <= 81

\* cube.indexed_frames.len() != 81 is rejected
FrameCountOk(c) == Len(c.indexed_frames) = 81

\* len % 3 != 0 || len > 768 is rejected
PaletteSizeOk(c) ==
    ~(Len(c.global_palette_rgb) % 3 # 0 \/ Len(c.global_palette_rgb) > 768)

\* write_gif89a_header: signature, logical screen descriptor, packed 0xF7
Gif89aHeaderBytes(width, height) ==
    Gif89aSignature \o LE16(width) \o LE16(height) \o <<247>> \o <<0>> \o <<0>>

\* faulty variant: the palette written without the padding
GlobalColorTableBytes_Unpadded(palette_rgb) == palette_rgb

\* write_global_color_table: the palette, then zero padding to 256 entries
GlobalColorTableBytes(palette_rgb) ==
    LET colors_written == Len(palette_rgb) \div 3
    IN  IF colors_written < 256
        THEN palette_rgb \o Repeat(0, (256 - colors_written) * 3)
        ELSE palette_rgb

\* faulty variant: the loop extension written unconditionally
WritesLoop_Always(flag) == TRUE

\* the guard of the write_netscape_loop call
WritesLoop(flag) == flag

\* write_netscape_loop
NetscapeLoopBytes ==
    <<33, 255, 11>> \o NetscapePattern \o <<3, 1>> \o LE16(0) \o <<0>>

\* faulty variant: the extension introducer 0x21 pushed as the image separator
ImageDescriptorBytes_Introducer(left, top, width, height) ==
    <<33>> \o LE16(left) \o LE16(top) \o LE16(width) \o LE16(height) \o <<0>>

\* write_image_descriptor
ImageDescriptorBytes(left, top, width, height) ==
    <<44>> \o LE16(left) \o LE16(top) \o LE16(width) \o LE16(height) \o <<0>>

\* the "compressed" vector of write_lzw_compressed_data: 256u16, the raw
\* indices, 257u16
CompressedBytes(frame_indices) == LE16(256) \o frame_indices \o LE16(257)

\* faulty variant: everything in one block, its length byte truncated
SubBlocks_OneBlock(compressed) ==
    IF Len(compressed) = 0 THEN <<>> ELSE <<Len(compressed) % 256>> \o compressed

\* the 255-byte sub-block loop of write_lzw_compressed_data and write_lzw_data
RECURSIVE SubBlocks(_)
SubBlocks(compressed) ==
    IF Len(compressed) = 0
    THEN <<>>
    ELSE LET block_size == Min(Len(compressed), 255)
         IN  <<block_size>> \o SubSeq(compressed, 1, block_size)
                \o SubBlocks(SubSeq(compressed, block_size + 1, Len(compressed)))

\* write_lzw_compressed_data: min code size 8, sub-blocks, terminator
LzwCompressedBytes(frame_indices) ==
    <<8>> \o SubBlocks(CompressedBytes(frame_indices)) \o <<0>>

\* faulty variant: a block terminator pushed in place of the trailer
TrailerBytes_Terminator == <<0>>

\* gif_bytes.push(0x3B)
TrailerBytes == <<59>>

\* Err(GifPipeError::ValidationFailed { message })
Pending == [status |-> "Pending", variant |-> "", message |-> ""]
OkResult == [status |-> "Ok", variant |-> "", message |-> ""]
InvalidFrameCount ==
    [status |-> "Err", variant |-> "ValidationFailed", message |-> "Expected 81 frames"]
InvalidPaletteSize ==
    [status |-> "Err", variant |-> "ValidationFailed", message |-> "Invalid palette size"]

---------------------------------------------------------------------------
(* validate_gif_bytes (ffi) *)

\* faulty variant: the trailer looked for in the first byte instead of the last
ValidateGifBytes_FirstByte(bytes) ==
    IF Len(bytes) < 13
    THEN [is_valid |-> FALSE, has_gif89a_header |-> FALSE,
          has_netscape_loop |-> FALSE, has_trailer |-> FALSE,
          frame_count |-> 0, errors |-> <<"GIF too small (< 13 bytes)">>]
    ELSE LET has_gif89a_header == SubSeq(bytes, 1, 6) = Gif89aSignature
             has_netscape_loop == Contains(bytes, NetscapePattern)
             frame_count == CountByte(bytes, 44)
             has_trailer == bytes[1] = 59
         IN  [is_valid |-> has_gif89a_header /\ has_netscape_loop
                              /\ has_trailer /\ frame_count = 81,
              has_gif89a_header |-> has_gif89a_header,
              has_netscape_loop |-> has_netscape_loop,
              has_trailer |-> has_trailer,
              frame_count |-> frame_count,
              errors |-> (IF has_gif89a_header THEN <<>>
                          ELSE <<"Missing GIF89a header">>)
                         \o (IF has_trailer THEN <<>>
                             ELSE <<"Missing GIF trailer (0x3B)">>)]

ValidateGifBytes(bytes) ==
    IF Len(bytes) < 13
    THEN [is_valid |-> FALSE, has_gif89a_header |-> FALSE,
          has_netscape_loop |-> FALSE, has_trailer |-> FALSE,
          frame_count |-> 0, errors |-> <<"GIF too small (< 13 bytes)">>]
    ELSE LET has_gif89a_header == SubSeq(bytes, 1, 6) = Gif89aSignature
             has_netscape_loop == Contains(bytes, NetscapePattern)
             frame_count == CountByte(bytes, 44)
             has_trailer == bytes[Len(bytes)] = 59
         IN  [is_valid |-> has_gif89a_header /\ has_netscape_loop
                              /\ has_trailer /\ frame_count = 81,
              has_gif89a_header |-> has_gif89a_header,
              has_netscape_loop |-> has_netscape_loop,
              has_trailer |-> has_trailer,
              frame_count |-> frame_count,
              errors |-> (IF has_gif89a_header THEN <<>>
                          ELSE <<"Missing GIF89a header">>)
                         \o (IF has_trailer THEN <<>>
                             ELSE <<"Missing GIF trailer (0x3B)">>)]

---------------------------------------------------------------------------
(* Inputs *)

\* index values the enumerated planes draw from: 0, 1, and 0x2C
PixelVals == {0, 1, 44}

BoundedSeqs(S, n) == UNION {[1..k -> S] : k \in 0..n}

\* a plane whose single sub-block has length byte 0x2C (40 indices + 4)
SubBlockPlane == Repeat(0, 40)

\* a plane whose 260 + 4 data bytes need a second sub-block
TwoBlockPlane == Repeat(1, 260)

Planes == BoundedSeqs(PixelVals, MaxPixels) \cup {SubBlockPlane, TwoBlockPlane}

\* the plane shared by the frames that are not singled out
BasePlanes == {<<0>>}

\* palettes: empty, one entry, 16 entries, 256 entries, one holding 0x2C,
\* one spelling NETSCAPE2.0, and the rejected lengths 4, 769 and 771
Palettes ==
    { <<>>,
      <<255, 0, 0>>,
      [i \in 1..48 |-> 200 + (i % 50)],
      [i \in 1..768 |-> 1 + (i % 7)],
      <<44, 0, 44>>,
      NetscapePattern \o <<0>>,
      <<255, 0, 0, 0>>,
      Repeat(9, 769),
      Repeat(9, 771) }

FrameCounts == {0, 50, 80, 81, 82}

\* the frame that differs from the others
SpecialFrames == {1, 81}

Cubes ==
    { [global_palette_rgb |-> p,
       indexed_frames |-> [k \in 1..n |-> IF k = s THEN a ELSE b],
       delays_cs |-> [k \in 1..n |-> 4]] :
         p \in Palettes, n \in FrameCounts, s \in SpecialFrames,
         a \in Planes, b \in BasePlanes }

---------------------------------------------------------------------------
(* encode_from_cube_data, one action per statement of the function body *)

\* the variables of an entry point that is not the one being called
NoCubeCall ==
    /\ cube = [global_palette_rgb |-> <<>>, indexed_frames |-> <<>>, delays_cs |-> <<>>]
    /\ fps_cs = 4
    /\ loop_forever = FALSE
    /\ validation = <<>>

NoGifCall ==
    /\ encoder = [optimize_palette |-> TRUE, validate_output |-> TRUE]
    /\ quantized_set = [palette_rgb |-> <<>>, frames_indices |-> <<>>,
                        attention_maps |-> <<>>]
    /\ optimized_palette = <<>>

NoQuantCall ==
    /\ frames_81_rgba = <<>>
    /\ rng = 0
    /\ centroids = <<>>
    /\ clusters = <<>>
    /\ iteration = 0
    /\ global_palette_rgb = <<>>
    /\ indexed_frames = <<>>
    /\ delta_e_values = <<>>
    /\ earlier = <<>>

Emit(kind, frame, bytes) ==
    /\ gif_bytes' = gif_bytes \o bytes
    /\ blocks' = Append(blocks, [kind |-> kind, frame |-> frame,
                                 first |-> Len(gif_bytes) + 1,
                                 last |-> Len(gif_bytes) + Len(bytes)])

Init ==
    /\ cube \in Cubes
    /\ fps_cs = 4
    /\ loop_forever \in BOOLEAN
    /\ pc = "validate_frames"
    /\ idx = 0
    /\ gif_bytes = <<>>
    /\ result = Pending
    /\ blocks = <<>>
    /\ validation = <<>>
    /\ NoGifCall
    /\ NoQuantCall

\* if cube.indexed_frames.len() != 81 { return Err(..) }
ValidateFrames ==
    /\ pc = "validate_frames"
    /\ IF FrameCountOk(cube)
       THEN pc' = "validate_palette" /\ result' = result
       ELSE pc' = "failed" /\ result' = InvalidFrameCount
    /\ UNCHANGED <<cube, fps_cs, loop_forever, idx, gif_bytes, blocks, validation>>
    /\ UNCHANGED <<gif_vars, quant_vars>>

\* if palette len % 3 != 0 || len > 768 { return Err(..) }
ValidatePalette ==
    /\ pc = "validate_palette"
    /\ IF PaletteSizeOk(cube)
       THEN pc' = "header" /\ result' = result
       ELSE pc' = "failed" /\ result' = InvalidPaletteSize
    /\ UNCHANGED <<cube, fps_cs, loop_forever, idx, gif_bytes, blocks, validation>>
    /\ UNCHANGED <<gif_vars, quant_vars>>

\* self.write_gif89a_header(&mut gif_bytes, 81, 81)
WriteGif89aHeader ==
    /\ pc = "header"
    /\ Emit("header", 0, Gif89aHeaderBytes(81, 81))
    /\ pc' = "color_table"
    /\ UNCHANGED <<cube, fps_cs, loop_forever, idx, result, validation>>
    /\ UNCHANGED <<gif_vars, quant_vars>>

\* self.write_global_color_table(&mut gif_bytes, &cube.global_palette_rgb)
WriteGlobalColorTable ==
    /\ pc = "color_table"
    /\ Emit("color_table", 0, GlobalColorTableBytes(cube.global_palette_rgb))
    /\ pc' = "loop"
    /\ UNCHANGED <<cube, fps_cs, loop_forever, idx, result, validation>>
    /\ UNCHANGED <<gif_vars, quant_vars>>

\* if loop_forever { self.write_netscape_loop(&mut gif_bytes) }
WriteNetscapeLoop ==
    /\ pc = "loop"
    /\ IF WritesLoop(loop_forever)
       THEN Emit("loop", 0, NetscapeLoopBytes)
       ELSE UNCHANGED <<gif_bytes, blocks>>
    /\ pc' = IF idx < Len(cube.indexed_frames) THEN "descriptor" ELSE "trailer"
    /\ UNCHANGED <<cube, fps_cs, loop_forever, idx, result, validation>>
    /\ UNCHANGED <<gif_vars, quant_vars>>

\* loop body, first call: self.write_image_descriptor(.., 0, 0, 81, 81)
WriteImageDescriptor ==
    /\ pc = "descriptor"
    /\ Emit("descriptor", idx, ImageDescriptorBytes(0, 0, 81, 81))
    /\ pc' = "lzw"
    /\ UNCHANGED <<cube, fps_cs, loop_forever, idx, result, validation>>
    /\ UNCHANGED <<gif_vars, quant_vars>>

\* loop body, second call: self.write_lzw_compressed_data(.., frame_indices);
\* then the iterator advances or the loop ends
WriteLzwCompressedData ==
    /\ pc = "lzw"
    /\ Emit("lzw", idx, LzwCompressedBytes(cube.indexed_frames[idx + 1]))
    /\ idx' = idx + 1
    /\ pc' = IF idx + 1 < Len(cube.indexed_frames) THEN "descriptor" ELSE "trailer"
    /\ UNCHANGED <<cube, fps_cs, loop_forever, result, validation>>
    /\ UNCHANGED <<gif_vars, quant_vars>>

\* gif_bytes.push(0x3B); Ok(gif_bytes)
WriteTrailer ==
    /\ pc = "trailer"
    /\ Emit("trailer", 0, TrailerBytes)
    /\ result' = OkResult
    /\ pc' = "done"
    /\ UNCHANGED <<cube, fps_cs, loop_forever, idx, validation>>
    /\ UNCHANGED <<gif_vars, quant_vars>>

\* validate_gif_bytes applied to the bytes a successful encode returned
Validate ==
    /\ pc = "done"
    /\ validation' = <<ValidateGifBytes(gif_bytes)>>
    /\ pc' = "validated"
    /\ UNCHANGED <<cube, fps_cs, loop_forever, idx, gif_bytes, result, blocks>>
    /\ UNCHANGED <<gif_vars, quant_vars>>

Next ==
    \/ ValidateFrames
    \/ ValidatePalette
    \/ WriteGif89aHeader
    \/ WriteGlobalColorTable
    \/ WriteNetscapeLoop
    \/ WriteImageDescriptor
    \/ WriteLzwCompressedData
    \/ WriteTrailer
    \/ Validate

Spec == Init /\ [][Next]_vars

\* the encoder returned Ok(gif_bytes)
Succeeded == pc \in {"done", "validated"} /\ result.status = "Ok"

---------------------------------------------------------------------------
(* Gif89aEncoder::encode_gif: the pieces *)

\* common_types::FRAME_SIZE_81 squared, the expected_pixels of a plane
ExpectedPixels == 81 * 81

\* Err(GifPipeError::ValidationError { message }) of validate_quantized_set
NoFramesProvided ==
    [status |-> "Err", variant |-> "ValidationError",
     message |-> "No frames provided for GIF encoding"]
EmptyPaletteProvided ==
    [status |-> "Err", variant |-> "ValidationError", message |-> "Empty palette provided"]
PaletteTooLarge ==
    [status |-> "Err", variant |-> "ValidationError", message |-> "Palette too large"]
FramePixelsMismatch ==
    [status |-> "Err", variant |-> "ValidationError",
     message |-> "Frame has wrong pixel count"]

\* chunk[2] (or chunk[1]) read from a last chunk shorter than three bytes
ChunkIndexPanic ==
    [status |-> "Panic", variant |-> "", message |-> "index out of bounds"]

\* validate_quantized_set: the first failing test, or Pending when all pass
\* (the variant tests the size of the first frame only)
ValidateQuantizedSetResult_FirstFrame(qs) ==
    IF Len(qs.frames_indices) = 0 THEN NoFramesProvided
    ELSE IF Len(qs.palette_rgb) = 0 THEN EmptyPaletteProvided
    ELSE IF Len(qs.palette_rgb) > 256 * 3 THEN PaletteTooLarge
    ELSE IF Len(qs.frames_indices[1]) # ExpectedPixels THEN FramePixelsMismatch
    ELSE Pending

ValidateQuantizedSetResult(qs) ==
    IF Len(qs.frames_indices) = 0 THEN NoFramesProvided
    ELSE IF Len(qs.palette_rgb) = 0 THEN EmptyPaletteProvided
    ELSE IF Len(qs.palette_rgb) > 256 * 3 THEN PaletteTooLarge
    ELSE IF \E k \in 1..Len(qs.frames_indices) :
                Len(qs.frames_indices[k]) # ExpectedPixels
         THEN FramePixelsMismatch
    ELSE Pending

\* palette_rgb.chunks(3).map(|chunk| [chunk[0], chunk[1], chunk[2]]), for a
\* length that is a multiple of three
PaletteColors(palette_rgb) ==
    [i \in 1..(Len(palette_rgb) \div 3) |->
        <<palette_rgb[3 * i - 2], palette_rgb[3 * i - 1], palette_rgb[3 * i]>>]

\* 0.299 r + 0.587 g + 0.114 b, in thousandths
Brightness(rgb) == 299 * rgb[1] + 587 * rgb[2] + 114 * rgb[3]

\* the place a stable sort by brightness gives entry i: behind the darker
\* entries and behind the equally bright entries that came before it
SortedPosition(palette, i) ==
    1 + Cardinality({j \in 1..Len(palette) :
                        \/ Brightness(palette[j]) < Brightness(palette[i])
                        \/ Brightness(palette[j]) = Brightness(palette[i]) /\ j < i})

\* optimize_palette_order: sort_by brightness, stable, the colours only
OptimizePaletteOrder(palette) ==
    LET placed == {<<SortedPosition(palette, i), i>> : i \in 1..Len(palette)}
    IN  [p \in 1..Len(palette) |-> palette[(CHOOSE e \in placed : e[1] = p)[2]]]

\* calculate_color_bits, for the sizes it accepts (1..=256)
CalculateColorBits(palette_size) ==
    IF palette_size <= 2 THEN 0
    ELSE IF palette_size <= 4 THEN 1
    ELSE IF palette_size <= 8 THEN 2
    ELSE IF palette_size <= 16 THEN 3
    ELSE IF palette_size <= 32 THEN 4
    ELSE IF palette_size <= 64 THEN 5
    ELSE IF palette_size <= 128 THEN 6
    ELSE 7

\* 1 << n
ShiftLeft1(n) == 2 ^ n

\* iter().flatten() of a Vec<[u8; 3]>
Flatten(palette) ==
    [i \in 1..(3 * Len(palette)) |-> palette[(i + 2) \div 3][((i - 1) % 3) + 1]]

\* write_gif_header, first part: signature, logical screen descriptor with
\* packed = 0xF0 | color_bits
GifHeaderBytes(palette) ==
    Gif89aSignature \o LE16(81) \o LE16(81)
        \o <<240 + CalculateColorBits(Len(palette))>> \o <<0>> \o <<0>>

\* faulty variant: the table written without the padding
GifColorTableBytes_Unpadded(palette) == Flatten(palette)

\* write_gif_header, second part: the palette, then zero entries up to
\* table_size = 1 << (color_bits + 1)
GifColorTableBytes(palette) ==
    LET table_size == ShiftLeft1(CalculateColorBits(Len(palette)) + 1)
    IN  Flatten(palette) \o Repeat(0, 3 * (table_size - Len(palette)))

\* attention_map.iter().sum()
RECURSIVE SumSeq(_)
SumSeq(values) ==
    IF Len(values) = 0 THEN 0 ELSE Head(values) + SumSeq(Tail(values))

\* (avg_attention * 150.0) as u16, for a map given in thousandths: the cast
\* cuts the fraction and saturates, a negative value to 0 and a large one to
\* 65535; an empty map averages to NaN, which the cast turns into 0
AttentionBonus(attention_map) ==
    IF Len(attention_map) = 0 \/ SumSeq(attention_map) < 0
    THEN 0
    ELSE Min((SumSeq(attention_map) * 150) \div (Len(attention_map) * 1000), 65535)

\* base_delay + attention_bonus does not fit the u16
DelayOverflows(attention_map) == 50 + AttentionBonus(attention_map) > 65535

\* calculate_frame_delay: (base_delay + attention_bonus).min(200), the sum
\* wrapped to 16 bits as a build without overflow checks does
CalculateFrameDelay(attention_map) ==
    Min((50 + AttentionBonus(attention_map)) % 65536, 200)

\* base_delay + attention_bonus in a build with overflow checks
AddOverflowPanic ==
    [status |-> "Panic", variant |-> "", message |-> "attempt to add with overflow"]

\* write_gif_frame, graphic control extension
GraphicControlBytes(delay) == <<33, 249, 4>> \o <<8>> \o LE16(delay) \o <<0>> \o <<0>>

\* write_gif_frame, image descriptor
GifImageDescriptorBytes ==
    <<44>> \o <<0, 0>> \o <<0, 0>> \o LE16(81) \o LE16(81) \o <<0>>

\* the inner while of write_lzw_data: the run that starts at i (0-based)
\* grows while the next index equals the first and count < 128; its length
\* is the least count at which that test fails
RunCount(indices, i) ==
    LET len == Len(indices)
        current == indices[i + 1]
        stops == {count \in 1..128 :
                     ~(/\ i + count < len
                       /\ indices[i + count + 1] = current
                       /\ count < 128)}
    IN  CHOOSE count \in stops : \A other \in stops : count <= other

\* one pass of the outer while of write_lzw_data, w = [i, compressed]: a
\* run longer than 3 goes out as (value, count - 1), a shorter one as raw
\* values, and i moves behind the run
RunPass(indices, w) ==
    LET current == indices[w.i + 1]
        count == RunCount(indices, w.i)
    IN  [i |-> w.i + count,
         compressed |-> w.compressed
                           \o (IF count > 3 THEN <<current, count - 1>>
                               ELSE Repeat(current, count))]

\* n more passes of the outer while, which stops once i reaches the end of
\* the plane; the passes are split in halves to keep the evaluation shallow
RECURSIVE RunLengthPasses(_, _, _)
RunLengthPasses(indices, w, n) ==
    IF n = 0 \/ w.i >= Len(indices) THEN w
    ELSE IF n = 1 THEN RunPass(indices, w)
    ELSE RunLengthPasses(indices, RunLengthPasses(indices, w, n \div 2), n - n \div 2)

\* min_code_size = (color_bits + 1).max(2)
MinCodeSize(palette) ==
    LET color_bits == CalculateColorBits(Len(palette))
    IN  IF color_bits + 1 > 2 THEN color_bits + 1 ELSE 2

\* write_lzw_data: min code size, clear code, run-length bytes (the while
\* makes at most one pass per index), end code in 255-byte sub-blocks,
\* terminator
LzwDataBytes(indices, palette) ==
    LET clear_code == ShiftLeft1(MinCodeSize(palette))
        end_code == clear_code + 1
    IN  <<MinCodeSize(palette)>>
            \o SubBlocks(RunLengthPasses(indices,
                                           [i |-> 0, compressed |-> LE16(clear_code)],
                                           Len(indices)).compressed
                           \o LE16(end_code))
            \o <<0>>

\* Ok(GifInfo { .. })
GifInfo(qs, palette, enc, gif_data) ==
    [status |-> "Ok", variant |-> "", message |-> "",
     file_size_bytes |-> Len(gif_data),
     frame_count |-> Len(qs.frames_indices),
     palette_size |-> Len(palette),
     has_netscape_loop |-> TRUE,
     validation_passed |-> enc.validate_output]

---------------------------------------------------------------------------
(* encode_gif: inputs *)

\* attention weights, in thousandths: none, 0.0, (1.0, 0.5), 2.0, -1.0, 437.0
AttentionMaps == {<<>>, <<0>>, <<1000, 500>>, <<2000>>, <<0 - 1000>>, <<437000>>}

\* an 81x81 plane of index 0
ZeroPlane == Repeat(0, ExpectedPixels)

\* the plane of index 0, the same with index 1 in the first pixel, one that
\* opens with 86 runs of three pixels (its data fill two sub-blocks), and a
\* plane of the wrong size
GifPlanes ==
    { ZeroPlane,
      [i \in 1..ExpectedPixels |-> IF i = 1 THEN 1 ELSE 0],
      [i \in 1..ExpectedPixels |-> IF i <= 258 THEN ((i - 1) \div 3) % 2 ELSE 0],
      <<0>> }

\* palettes of 0, 1, 3, 5, 16, 17 and 256 entries, and the lengths 4 and 769
GifPalettes ==
    { <<>>,
      <<255, 0, 0>>,
      <<255, 255, 255, 0, 0, 0, 255, 0, 0>>,
      [i \in 1..15 |-> 250 - 10 * i],
      [i \in 1..48 |-> 200 + (i % 50)],
      [i \in 1..51 |-> 200 - i],
      [i \in 1..768 |-> 1 + (i % 7)],
      <<255, 0, 0, 0>>,
      Repeat(9, 769) }

GifFrameCounts == {0, 1, 2}

\* every palette with one frame and one attention map; the three-colour
\* palette with every enumerated choice of frames, each with its attention
\* map; and with every enumerated choice of attention maps
QuantizedSets ==
    { [palette_rgb |-> p,
       frames_indices |-> <<ZeroPlane>>,
       attention_maps |-> <<<<500>>>>] : p \in GifPalettes }
    \cup
    { [palette_rgb |-> <<255, 255, 255, 0, 0, 0, 255, 0, 0>>,
       frames_indices |-> [k \in 1..n |-> IF k = n THEN a ELSE ZeroPlane],
       attention_maps |-> [k \in 1..n |-> <<500>>]] :
         n \in GifFrameCounts, a \in GifPlanes }
    \cup
    { [palette_rgb |-> <<255, 255, 255, 0, 0, 0, 255, 0, 0>>,
       frames_indices |-> [k \in 1..n |-> ZeroPlane],
       attention_maps |-> [k \in 1..m |-> IF k = 1 THEN t ELSE <<500>>]] :
         n \in GifFrameCounts, m \in 0..MaxAttentionMaps, t \in AttentionMaps }

---------------------------------------------------------------------------
(* encode_gif, one action per statement of the function body *)

InitGif ==
    /\ quantized_set \in QuantizedSets
    /\ encoder \in [optimize_palette : {TRUE}, validate_output : BOOLEAN]
    /\ optimized_palette = <<>>
    /\ pc = "validate_quantized_set"
    /\ idx = 0
    /\ gif_bytes = <<>>
    /\ result = Pending
    /\ blocks = <<>>
    /\ NoCubeCall
    /\ NoQuantCall

\* the number of (frame, attention map) pairs the zip yields
ZippedFrames(qs) == Min(Len(qs.frames_indices), Len(qs.attention_maps))

\* self.validate_quantized_set(&quantized_set)?
ValidateQuantizedSet ==
    /\ pc = "validate_quantized_set"
    /\ result' = ValidateQuantizedSetResult(quantized_set)
    /\ pc' = IF result' = Pending THEN "build_palette" ELSE "failed"
    /\ UNCHANGED <<idx, gif_bytes, blocks, gif_vars, cube_vars, quant_vars>>

\* let palette_colors = ..chunks(3)..; let optimized_palette = if
\* self.optimize_palette { self.optimize_palette_order(..)? } else { .. }
BuildPalette ==
    /\ pc = "build_palette"
    /\ IF Len(quantized_set.palette_rgb) % 3 # 0
       THEN /\ result' = ChunkIndexPanic
            /\ pc' = "panicked"
            /\ UNCHANGED optimized_palette
       ELSE /\ optimized_palette' =
                  IF encoder.optimize_palette
                  THEN OptimizePaletteOrder(PaletteColors(quantized_set.palette_rgb))
                  ELSE PaletteColors(quantized_set.palette_rgb)
            /\ pc' = "gif_header"
            /\ UNCHANGED result
    /\ UNCHANGED <<idx, gif_bytes, blocks, encoder, quantized_set, cube_vars, quant_vars>>

\* self.write_gif_header(&mut gif_data, &optimized_palette)?
WriteGifHeader ==
    /\ pc = "gif_header"
    /\ gif_bytes' = GifHeaderBytes(optimized_palette)
                        \o GifColorTableBytes(optimized_palette)
    /\ blocks' = <<[kind |-> "header", frame |-> 0, first |-> 1, last |-> 13],
                   [kind |-> "color_table", frame |-> 0, first |-> 14,
                    last |-> 13 + Len(GifColorTableBytes(optimized_palette))]>>
    /\ pc' = IF idx < ZippedFrames(quantized_set) THEN "gce" ELSE "gif_trailer"
    /\ UNCHANGED <<idx, result, gif_vars, cube_vars, quant_vars>>

\* write_gif_frame, the graphic control extension with
\* self.calculate_frame_delay(attention_map)
WriteGraphicControl ==
    /\ pc = "gce"
    /\ Emit("gce", idx,
            GraphicControlBytes(CalculateFrameDelay(quantized_set.attention_maps[idx + 1])))
    /\ pc' = "gif_descriptor"
    /\ UNCHANGED <<idx, result, gif_vars, cube_vars, quant_vars>>

\* self.calculate_frame_delay(attention_map) in a build with overflow
\* checks, for a sum that does not fit
FrameDelayPanics ==
    /\ pc = "gce"
    /\ DelayOverflows(quantized_set.attention_maps[idx + 1])
    /\ result' = AddOverflowPanic
    /\ pc' = "panicked"
    /\ UNCHANGED <<idx, gif_bytes, blocks, gif_vars, cube_vars, quant_vars>>

\* write_gif_frame, the image descriptor
WriteGifImageDescriptor ==
    /\ pc = "gif_descriptor"
    /\ Emit("descriptor", idx, GifImageDescriptorBytes)
    /\ pc' = "lzw_data"
    /\ UNCHANGED <<idx, result, gif_vars, cube_vars, quant_vars>>

\* write_gif_frame, self.write_lzw_data(output, indices, palette)?; then the
\* zipped iterator advances or ends
WriteLzwData ==
    /\ pc = "lzw_data"
    /\ Emit("lzw", idx, LzwDataBytes(quantized_set.frames_indices[idx + 1],
                                     optimized_palette))
    /\ idx' = idx + 1
    /\ pc' = IF idx + 1 < ZippedFrames(quantized_set) THEN "gce" ELSE "gif_trailer"
    /\ UNCHANGED <<result, gif_vars, cube_vars, quant_vars>>

\* self.write_gif_trailer(&mut gif_data)?
WriteGifTrailer ==
    /\ pc = "gif_trailer"
    /\ Emit("trailer", 0, TrailerBytes)
    /\ pc' = "gif_info"
    /\ UNCHANGED <<idx, result, gif_vars, cube_vars, quant_vars>>

\* if self.validate_output { self.validate_gif_output(&gif_data)? }, whose
\* tests (six bytes, "GIF89a") the written header always passes; Ok(GifInfo)
ReturnGifInfo ==
    /\ pc = "gif_info"
    /\ IF encoder.validate_output
          /\ (Len(gif_bytes) < 6 \/ SubSeq(gif_bytes, 1, 6) # Gif89aSignature)
       THEN /\ result' = [status |-> "Err", variant |-> "ValidationError",
                          message |-> "Invalid GIF signature"]
            /\ pc' = "failed"
       ELSE /\ result' = GifInfo(quantized_set, optimized_palette, encoder, gif_bytes)
            /\ pc' = "gif_done"
    /\ UNCHANGED <<idx, gif_bytes, blocks, gif_vars, cube_vars, quant_vars>>

NextGif ==
    \/ ValidateQuantizedSet
    \/ BuildPalette
    \/ WriteGifHeader
    \/ WriteGraphicControl
    \/ FrameDelayPanics
    \/ WriteGifImageDescriptor
    \/ WriteLzwData
    \/ WriteGifTrailer
    \/ ReturnGifInfo

SpecGif == InitGif /\ [][NextGif]_vars

\* encode_gif returned Ok(GifInfo)
GifSucceeded == pc = "gif_done" /\ result.status = "Ok"

\* both encoder entry points: one call of either
InitEncoders == Init \/ InitGif

NextEncoders == Next \/ NextGif

SpecEncoders == InitEncoders /\ [][NextEncoders]_vars

---------------------------------------------------------------------------
(* Properties *)

\* the palette passes the encoder's own palette test and is not empty
PaletteWellFormed(c) ==
    /\ Len(c.global_palette_rgb) > 0
    /\ Len(c.global_palette_rgb) <= 768
    /\ Len(c.global_palette_rgb) % 3 = 0

\* some pixel of some frame holds an index that is no palette entry
HasInvalidIndex(c) ==
    \E k \in 1..Len(c.indexed_frames) :
        \E i \in 1..Len(c.indexed_frames[k]) :
            c.indexed_frames[k][i] >= Len(c.global_palette_rgb) \div 3

\* a cube that meets the data model: 81 planes, a well-formed palette, and
\* every index below the entry count
CubeWellFormed(c) ==
    /\ Len(c.indexed_frames) = 81
    /\ PaletteWellFormed(c)
    /\ ~HasInvalidIndex(c)

\* C1: every byte vector the encoder returns begins with the six bytes
\* "GIF89a" and has 0x3B as its last byte, for either value of loop_forever.
C1_HeaderAndTrailer ==
    Succeeded =>
        /\ Len(gif_bytes) >= 7
        /\ SubSeq(gif_bytes, 1, 6) = <<71, 73, 70, 56, 57, 97>>
        /\ gif_bytes[Len(gif_bytes)] = 59

\* a successful encode without the loop extension, of a cube with a
\* two-pixel frame ending in 0x2C, that has the header and the trailer
C1_Witness ==
    /\ Succeeded
    /\ ~loop_forever
    /\ cube.indexed_frames[81] = <<1, 44>>
    /\ SubSeq(gif_bytes, 1, 6) = <<71, 73, 70, 56, 57, 97>>
    /\ gif_bytes[Len(gif_bytes)] = 59

\* C7: a cube whose frame count is not 81 fails with the frame-count error,
\* whatever its palette, and no byte is ever appended to the output.
C7_InvalidFrameCount ==
    Len(cube.indexed_frames) # 81 =>
        /\ gif_bytes = <<>>
        /\ pc \in {"validate_frames", "failed"}
        /\ (pc = "failed" => result = InvalidFrameCount)

\* an 80-frame cube with a 769-byte palette, rejected for its frame count
C7_Witness ==
    /\ pc = "failed"
    /\ Len(cube.indexed_frames) = 80
    /\ Len(cube.global_palette_rgb) = 769
    /\ result = InvalidFrameCount
    /\ gif_bytes = <<>>

\* the bytes of the output that block b of the log covers
BlockBytes(b) == SubSeq(gif_bytes, b.first, b.last)

\* the 11-byte pattern lies wholly inside one colour-table or image-data block
PatternInsideCubeBlock ==
    \E n \in 1..Len(blocks) :
        /\ blocks[n].kind \in {"color_table", "lzw"}
        /\ Contains(BlockBytes(blocks[n]), NetscapePattern)

\* C2 as stated: the output contains "NETSCAPE2.0" exactly when loop_forever
\* was true, whatever the palette bytes and index bytes are.
C2_Original ==
    (Succeeded /\ CubeWellFormed(cube)) => (Contains(gif_bytes, NetscapePattern) <=> loop_forever)

\* C2 amended: the NETSCAPE2.0 application extension stands right after the
\* 768-byte colour table exactly when loop_forever was true, so the output
\* contains the pattern whenever the flag is set; without the flag the
\* pattern occurs only inside the colour table or a frame's image data,
\* that is only when the cube's own bytes spell it.
C2_LoopExtensionIffFlag ==
    Succeeded =>
        /\ loop_forever <=>
              SubSeq(gif_bytes, 782, 795) =
                 <<33, 255, 11, 78, 69, 84, 83, 67, 65, 80, 69, 50, 46, 48>>
        /\ loop_forever => Contains(gif_bytes, NetscapePattern)
        /\ (~loop_forever /\ Contains(gif_bytes, NetscapePattern))
              => PatternInsideCubeBlock

\* loop_forever is false and the palette spells the pattern, which then
\* shows in the output
C2_Witness ==
    /\ Succeeded
    /\ ~loop_forever
    /\ cube.global_palette_rgb = NetscapePattern \o <<0>>
    /\ Contains(gif_bytes, NetscapePattern)
    /\ gif_bytes[782] = 44

\* number of 0x2C values among the cube's index planes and palette
CubeSeparatorBytes(c) ==
    Cardinality(UNION {{<<k, i>> : i \in {j \in 1..Len(c.indexed_frames[k]) :
                                            c.indexed_frames[k][j] = 44}} :
                       k \in 1..Len(c.indexed_frames)})
      + CountByte(c.global_palette_rgb, 44)

\* the sub-block length bytes of a frame of n indices: its n + 4 data bytes
\* go out in blocks of 255 and one last shorter block
SubBlockLengths(n) ==
    (IF n + 4 >= 255 THEN {255} ELSE {})
        \cup (IF (n + 4) % 255 # 0 THEN {(n + 4) % 255} ELSE {})

\* C3 as stated: at least 81 bytes 0x2C, and exactly 81 when no index value
\* and no palette byte is 0x2C.
C3_Original ==
    (Succeeded /\ CubeWellFormed(cube)) =>
        /\ CountByte(gif_bytes, 44) >= 81
        /\ CubeSeparatorBytes(cube) = 0 => CountByte(gif_bytes, 44) = 81

\* C3 amended: at least 81 bytes 0x2C, and exactly 81 when no index value,
\* no palette byte and no sub-block length byte of a frame is 0x2C (a
\* frame of 6561 indices has sub-block lengths 255 and 190 only).
C3_SeparatorCount ==
    Succeeded =>
        /\ CountByte(gif_bytes, 44) >= 81
        /\ (/\ CubeSeparatorBytes(cube) = 0
            /\ \A k \in 1..Len(cube.indexed_frames) :
                  44 \notin SubBlockLengths(Len(cube.indexed_frames[k])))
              => CountByte(gif_bytes, 44) = 81

\* a cube free of 0x2C whose output has exactly the 81 separators
C3_Witness ==
    /\ Succeeded
    /\ CubeSeparatorBytes(cube) = 0
    /\ cube.indexed_frames[1] = <<1, 0>>
    /\ Len(cube.global_palette_rgb) = 48
    /\ CountByte(gif_bytes, 44) = 81

\* C4 as stated: the validator's report on any successful output has
\* is_valid = TRUE and frame_count >= 81.
C4_Original ==
    (pc = "validated" /\ CubeWellFormed(cube)) =>
        /\ validation[1].is_valid
        /\ validation[1].frame_count >= 81

\* C4 amended: the report on a successful output always has the header,
\* the trailer and frame_count >= 81; is_valid is TRUE exactly when the
\* output also contains NETSCAPE2.0 and holds exactly 81 bytes 0x2C, which
\* is the case with loop_forever set and no further 0x2C in the stream, and
\* is not the case with loop_forever unset unless the cube spells the pattern.
C4_ValidatorOnEncoderOutput ==
    pc = "validated" =>
        /\ validation[1].has_gif89a_header
        /\ validation[1].has_trailer
        /\ validation[1].frame_count >= 81
        /\ validation[1].frame_count = CountByte(gif_bytes, 44)
        /\ validation[1].is_valid <=>
              (Contains(gif_bytes, NetscapePattern) /\ CountByte(gif_bytes, 44) = 81)
        /\ (loop_forever /\ CountByte(gif_bytes, 44) = 81) => validation[1].is_valid
        /\ (~loop_forever /\ ~PatternInsideCubeBlock) => ~validation[1].is_valid

\* a looping output with exactly 81 separators, reported valid
C4_Witness ==
    /\ pc = "validated"
    /\ loop_forever
    /\ cube.indexed_frames[81] = <<0, 1>>
    /\ validation[1].is_valid
    /\ validation[1].frame_count = 81

\* C5 as stated: for a cube of 81 frames and a well-formed palette in which
\* some pixel's index is >= the number of palette entries, the call ends in
\* an error and its output holds no byte.
C5_InvalidIndexRejected ==
    (/\ Len(cube.indexed_frames) = 81
     /\ PaletteWellFormed(cube)
     /\ HasInvalidIndex(cube)
     /\ pc \in {"failed", "done", "validated"})
        => /\ gif_bytes = <<>>
           /\ result.status = "Err"

\* C6 as stated: for an 81-frame cube whose palette byte length is 0, above
\* 768 or no multiple of 3, the call ends in the palette-size error and its
\* output holds no byte.
C6_InvalidPaletteSize ==
    (/\ Len(cube.indexed_frames) = 81
     /\ ~PaletteWellFormed(cube)
     /\ pc \in {"failed", "done", "validated"})
        => /\ gif_bytes = <<>>
           /\ result = InvalidPaletteSize

\* the blocks of the log that belong to frames
FrameBlocks == SelectSeq(blocks, LAMBDA b : b.kind \in {"gce", "descriptor", "lzw"})

\* the graphic control extension of a frame shown for delay centiseconds:
\* disposal method 2 in bits 4-2 of the packed byte, transparent index 0
GraphicControlExtension(delay) ==
    <<33, 249, 4, 8>> \o LE16(delay) \o <<0>> \o <<0>>

\* C8 as stated: in a finished output every frame k consists of a graphic
\* control extension (with the frame's delay, be it the cube's delays_cs
\* entry or the fps_cs argument), then its image descriptor,
\* then its image data ending in the 0x00 terminator, frame after frame.
C8_FrameBlockOrder ==
    (Succeeded /\ CubeWellFormed(cube)) =>
        /\ Len(FrameBlocks) = 3 * 81
        /\ \A k \in 0..80 :
              /\ FrameBlocks[3 * k + 1].kind = "gce"
              /\ BlockBytes(FrameBlocks[3 * k + 1])
                    \in {GraphicControlExtension(cube.delays_cs[k + 1]),
                         GraphicControlExtension(fps_cs)}
              /\ FrameBlocks[3 * k + 2].kind = "descriptor"
              /\ FrameBlocks[3 * k + 3].kind = "lzw"
              /\ gif_bytes[FrameBlocks[3 * k + 3].last] = 0
              /\ \A j \in 1..3 : FrameBlocks[3 * k + j].frame = k

RECURSIVE Pow2(_)
Pow2(n) == IF n = 0 THEN 1 ELSE 2 * Pow2(n - 1)

RECURSIVE SubBlockPayload(_, _)
\* the data bytes of the sub-blocks that start at position p, up to the
\* 0x00 terminator
SubBlockPayload(bytes, p) ==
    IF p > Len(bytes) \/ bytes[p] = 0
    THEN <<>>
    ELSE SubSeq(bytes, p + 1, Min(p + bytes[p], Len(bytes)))
            \o SubBlockPayload(bytes, p + bytes[p] + 1)

\* bit n of a byte string, least significant bit of each byte first
BitAt(data, n) == (data[(n \div 8) + 1] \div Pow2(n % 8)) % 2

RECURSIVE CodeAt(_, _, _)
\* the code of the given width that starts at bit offset off
CodeAt(data, off, width) ==
    IF width = 0 THEN 0
    ELSE BitAt(data, off) + 2 * CodeAt(data, off + 1, width - 1)

\* the code table after a clear code: one string per index, then the
\* clear and end-of-information codes
InitialCodeTable(min_code_size) ==
    [c \in 1..(Pow2(min_code_size) + 2) |->
        IF c <= Pow2(min_code_size) THEN <<c - 1>> ELSE <<>>]

RECURSIVE LzwDecodeFrom(_, _, _, _, _, _, _)
\* the standard GIF LZW decoder: codes of growing width (at most 12 bits),
\* table[c + 1] the string of code c, prev the previous code (4096 = none);
\* a code that is not in the table puts 256, which is no index, in the
\* output
LzwDecodeFrom(data, off, width, table, prev, out, min_code_size) ==
    IF off + width > 8 * Len(data)
    THEN out
    ELSE LET code == CodeAt(data, off, width)
             clear == Pow2(min_code_size)
         IN  IF code = clear
             THEN LzwDecodeFrom(data, off + width, min_code_size + 1,
                                InitialCodeTable(min_code_size), 4096, out,
                                min_code_size)
             ELSE IF code = clear + 1
             THEN out
             ELSE IF prev = 4096
             THEN IF code < clear
                  THEN LzwDecodeFrom(data, off + width, width, table, code,
                                     out \o <<code>>, min_code_size)
                  ELSE out \o <<256>>
             ELSE IF code > Len(table)
             THEN out \o <<256>>
             ELSE LET entry == IF code < Len(table)
                               THEN table[code + 1]
                               ELSE table[prev + 1] \o <<table[prev + 1][1]>>
                      grown == IF Len(table) < 4096
                               THEN Append(table, table[prev + 1] \o <<entry[1]>>)
                               ELSE table
                      wider == IF Len(grown) = Pow2(width) /\ width < 12
                               THEN width + 1
                               ELSE width
                  IN  LzwDecodeFrom(data, off + width, wider, grown, code,
                                    out \o entry, min_code_size)

\* the indices a decoder reads from image data: the minimum-code-size byte,
\* then the sub-blocks
LzwDecode(image_data) ==
    LzwDecodeFrom(SubBlockPayload(image_data, 2), 0, image_data[1] + 1,
                  InitialCodeTable(image_data[1]), 4096, <<>>, image_data[1])

\* C9 as stated: the image data of every frame of a finished output, read
\* by the standard variable-width LZW decoder, is that frame's index plane.
C9_LzwRoundTrip ==
    (Succeeded /\ CubeWellFormed(cube)) =>
        \A n \in 1..Len(blocks) :
            blocks[n].kind = "lzw" =>
                LzwDecode(BlockBytes(blocks[n])) = cube.indexed_frames[blocks[n].frame + 1]

RECURSIVE Log2(_)
\* floor of the binary logarithm
Log2(n) == IF n <= 1 THEN 0 ELSE 1 + Log2(n \div 2)

RECURSIVE NextPowerOfTwo(_)
\* the least power of two >= n
NextPowerOfTwo(n) == IF n <= 1 THEN 1 ELSE 2 * NextPowerOfTwo((n + 1) \div 2)

\* the colour-table block of the log
ColorTableBlock == blocks[2]

---------------------------------------------------------------------------
(* Properties of both encoder entry points *)

\* either entry point returned Ok
EncoderSucceeded == Succeeded \/ GifSucceeded

\* C11: in every byte stream either entry point produces, the colour table
\* that starts at offset 13 is exactly 3 * 2^(s+1) bytes long, s being the
\* low three bits of the packed byte at offset 10, and the block that
\* follows (extension, image descriptor, or the trailer when no frame is
\* written) begins right behind it.
C11_DeclaredTableSizeIsEmitted ==
    EncoderSucceeded =>
        LET s == gif_bytes[11] % 8
            table_bytes == 3 * Pow2(s + 1)
        IN  /\ Len(blocks) >= 3
            /\ blocks[1] = [kind |-> "header", frame |-> 0, first |-> 1, last |-> 13]
            /\ blocks[2] = [kind |-> "color_table", frame |-> 0, first |-> 14,
                            last |-> 13 + table_bytes]
            /\ blocks[3].first = 14 + table_bytes
            /\ blocks[3].kind \in {"loop", "gce", "descriptor", "trailer"}
            /\ gif_bytes[14 + table_bytes] \in {33, 44, 59}

\* encode_gif wrote a three-entry palette as a four-entry table (s = 1)
\* followed by the first frame's graphic control extension
C11_Witness ==
    /\ GifSucceeded
    /\ Len(quantized_set.palette_rgb) = 9
    /\ gif_bytes[11] = 241
    /\ blocks[2].last - blocks[2].first + 1 = 12
    /\ SubSeq(gif_bytes, 23, 25) = <<0, 0, 0>>
    /\ gif_bytes[26] = 33

\* the position behind the sub-block chain that starts at p: each length
\* byte 1..255 is followed by that many data bytes, a 0x00 ends the chain;
\* 0 when the chain runs past the end of the stream
RECURSIVE SkipSubBlocks(_)
SkipSubBlocks(p) ==
    IF p > Len(gif_bytes) THEN 0
    ELSE IF gif_bytes[p] = 0 THEN p + 1
    ELSE SkipSubBlocks(p + 1 + gif_bytes[p])

\* one step of a structural walker at position p: an extension is its
\* introducer, its label and a sub-block chain; an image is its ten-byte
\* descriptor, the minimum code size and a sub-block chain; the walker stays
\* on the trailer, and yields 0 when a byte is no block start
WalkBlock(p) ==
    IF p = 0 \/ p > Len(gif_bytes) THEN 0
    ELSE IF gif_bytes[p] = 59 THEN p
    ELSE IF gif_bytes[p] = 33 THEN SkipSubBlocks(p + 2)
    ELSE IF gif_bytes[p] = 44 THEN SkipSubBlocks(p + 11)
    ELSE 0

\* the walker's path is the block log: started behind the colour table it
\* stands on the third block; from every extension or image descriptor of
\* the log its step lands on the log's next extension, image descriptor or
\* trailer; and the log ends with the trailer
WalkerFollowsLog ==
    /\ Len(blocks) >= 3
    /\ blocks[3].first = blocks[2].last + 1
    /\ \A n \in 3..Len(blocks) :
          /\ blocks[n].kind \in {"loop", "gce"} =>
                /\ n < Len(blocks)
                /\ blocks[n + 1].kind # "lzw"
                /\ WalkBlock(blocks[n].first) = blocks[n + 1].first
          /\ blocks[n].kind = "descriptor" =>
                /\ n + 1 < Len(blocks)
                /\ blocks[n + 1].kind = "lzw"
                /\ blocks[n + 2].kind # "lzw"
                /\ WalkBlock(blocks[n].first) = blocks[n + 2].first
          /\ blocks[n].kind = "lzw" => blocks[n - 1].kind = "descriptor"
          /\ blocks[n].kind = "trailer" => n = Len(blocks)
    /\ blocks[Len(blocks)].kind = "trailer"

\* where the walker comes to rest: on the trailer of the log
WalkerEnd == WalkBlock(blocks[Len(blocks)].first)

\* the sub-block chain that starts at p ends with its terminator at last,
\* and no length byte reaches beyond it
RECURSIVE SubBlockChain(_, _)
SubBlockChain(p, last) ==
    IF p > last THEN FALSE
    ELSE IF gif_bytes[p] = 0 THEN p = last
    ELSE gif_bytes[p] \in 1..255 /\ SubBlockChain(p + 1 + gif_bytes[p], last)

\* C12: in every encoder output each frame's image data, behind the
\* minimum-code-size byte, is a chain of sub-blocks (length byte 1..255,
\* that many data bytes) closed by one 0x00 at the end of the frame's data;
\* and a structural block walker started behind the global colour table
\* reaches the 0x3B trailer exactly at the last byte.
C12_SubBlocksAndWalker ==
    EncoderSucceeded =>
        /\ \A n \in 1..Len(blocks) :
              blocks[n].kind = "lzw" =>
                  SubBlockChain(blocks[n].first + 1, blocks[n].last)
        /\ WalkerFollowsLog
        /\ WalkerEnd = Len(gif_bytes)
        /\ gif_bytes[Len(gif_bytes)] = 59

\* the cube encoder wrote a frame of 260 indices as a 255-byte sub-block and
\* a 9-byte sub-block, and the walker arrived at the last byte
C12_Witness ==
    /\ Succeeded
    /\ loop_forever
    /\ cube.indexed_frames[81] = TwoBlockPlane
    /\ LET lzw == blocks[Len(blocks) - 1]
       IN  /\ lzw.kind = "lzw"
           /\ gif_bytes[lzw.first + 1] = 255
           /\ gif_bytes[lzw.first + 257] = 9
           /\ gif_bytes[lzw.last] = 0
           /\ lzw.last = lzw.first + 267
    /\ WalkerFollowsLog
    /\ WalkerEnd = Len(gif_bytes)

(***************************************************************************)
(* common_types::oklab and OklabQuantizer: the arithmetic                  *)
(*                                                                         *)
(* The f32 values of the source are fixed-point integers here: linear      *)
(* light, XYZ, LMS and Oklab coordinates in units of 1 / OklabScale.       *)
(* Distances are compared by their squares, which orders them as the       *)
(* square roots of the source do.                                          *)
(***************************************************************************)
OklabScale == 10000

\* ((c / 255 + 0.055) / 1.055) ^ 2.4, or c / 255 / 12.92 up to 0.04045,
\* tabulated for c = 0..255 in units of 1 / OklabScale
SrgbLinear ==
    <<
       0, 3, 6, 9, 12, 15, 18, 21, 24, 27, 30, 33, 37, 40, 44, 48,
       52, 56, 60, 65, 70, 75, 80, 86, 91, 97, 103, 110, 116, 123, 130, 137,
       144, 152, 160, 168, 176, 185, 194, 203, 212, 222, 232, 242, 252, 262, 273, 284,
       296, 307, 319, 331, 343, 356, 369, 382, 395, 409, 423, 437, 452, 467, 482, 497,
       513, 529, 545, 561, 578, 595, 612, 630, 648, 666, 685, 704, 723, 742, 762, 782,
       802, 823, 844, 865, 887, 908, 931, 953, 976, 999, 1022, 1046, 1070, 1095, 1119, 1144,
       1170, 1195, 1221, 1248, 1274, 1301, 1329, 1356, 1384, 1413, 1441, 1470, 1500, 1529, 1559, 1590,
       1620, 1651, 1683, 1714, 1746, 1779, 1812, 1845, 1878, 1912, 1946, 1981, 2016, 2051, 2086, 2122,
       2159, 2195, 2232, 2270, 2307, 2346, 2384, 2423, 2462, 2502, 2542, 2582, 2623, 2664, 2705, 2747,
       2789, 2831, 2874, 2918, 2961, 3005, 3050, 3095, 3140, 3185, 3231, 3278, 3325, 3372, 3419, 3467,
       3515, 3564, 3613, 3663, 3712, 3763, 3813, 3864, 3916, 3968, 4020, 4072, 4125, 4179, 4233, 4287,
       4342, 4397, 4452, 4508, 4564, 4621, 4678, 4735, 4793, 4851, 4910, 4969, 5029, 5089, 5149, 5210,
       5271, 5333, 5395, 5457, 5520, 5583, 5647, 5711, 5776, 5841, 5906, 5972, 6038, 6105, 6172, 6240,
       6308, 6376, 6445, 6514, 6584, 6654, 6724, 6795, 6867, 6939, 7011, 7084, 7157, 7231, 7305, 7379,
       7454, 7529, 7605, 7682, 7758, 7835, 7913, 7991, 8070, 8148, 8228, 8308, 8388, 8469, 8550, 8632,
       8714, 8796, 8879, 8963, 9047, 9131, 9216, 9301, 9387, 9473, 9560, 9647, 9734, 9823, 9911, 10000
    >>

\* the largest r in lo..hi with F(r) <= v, for increasing F
RECURSIVE LargestBelow(_, _, _, _)
LargestBelow(F(_), v, lo, hi) ==
    IF lo = hi THEN lo
    ELSE LET mid == (lo + hi + 1) \div 2
         IN  IF F(mid) <= v THEN LargestBelow(F, v, mid, hi)
             ELSE LargestBelow(F, v, lo, mid - 1)

\* f32::cbrt of a value in units of 1 / OklabScale, to three decimals
Cbrt(v) ==
    LET Cube(r) == r * r * r
    IN  IF v <= 0 THEN 0 ELSE 10 * LargestBelow(Cube, v * 100000, 0, 1200)

\* f32::sqrt of a squared distance in units of 1 / OklabScale ^ 2
Sqrt(v) ==
    LET Square(r) == r * r
    IN  LargestBelow(Square, v, 0, 4 * OklabScale)

\* rgb_to_oklab: sRGB -> linear -> XYZ -> LMS -> cube roots -> Oklab
RgbToOklab(rgb) ==
    LET r == SrgbLinear[rgb[1] + 1]
        g == SrgbLinear[rgb[2] + 1]
        b == SrgbLinear[rgb[3] + 1]
        x == (4124 * r + 3576 * g + 1805 * b) \div 10000
        y == (2126 * r + 7152 * g + 722 * b) \div 10000
        z == (193 * r + 1192 * g + 9505 * b) \div 10000
        l == Cbrt((8189 * x + 3619 * y - 1289 * z) \div 10000)
        m == Cbrt((330 * x + 9293 * y + 361 * z) \div 10000)
        s == Cbrt((482 * x + 2644 * y + 6339 * z) \div 10000)
    IN  << (2105 * l + 7936 * m - 41 * s) \div 10000,
           (19780 * l - 24286 * m + 4506 * s) \div 10000,
           (259 * l + 7828 * m - 8087 * s) \div 10000 >>

\* the square of delta_e_oklab
DeltaESquared(lab1, lab2) ==
    LET dl == lab1[1] - lab2[1]
        da == lab1[2] - lab2[2]
        db == lab1[3] - lab2[3]
    IN  dl * dl + da * da + db * db

\* delta_e_oklab
DeltaEOklab(lab1, lab2) == Sqrt(DeltaESquared(lab1, lab2))

\* (v.clamp(0.0, 1.0) * 255.0) as u8, v in units of 1 / OklabScale ^ 2
ClampToU8(v) ==
    LET one == OklabScale * OklabScale
        clamped == IF v < 0 THEN 0 ELSE IF v > one THEN one ELSE v
    IN  ((clamped \div 100) * 255) \div (one \div 100)

\* oklab_to_rgb: the simplified linear conversion of the source
OklabToRgb(oklab) ==
    LET l == oklab[1]
        a == oklab[2]
        b == oklab[3]
    IN  << ClampToU8(10000 * l + 3963 * a + 2158 * b),
           ClampToU8(10000 * l - 1055 * a - 638 * b),
           ClampToU8(10000 * l - 894 * a - 12914 * b) >>

---------------------------------------------------------------------------
(* OklabQuantizer: the pieces of quantize_for_cube *)

\* OklabQuantizer::new(256): max_colors, and the defaults of the other fields
\* (the variant takes a quantizer of 1024 colours)
max_colors_Uncapped == 4 * 256

\* faulty variant: a threshold no movement is below
convergence_threshold_Never == 0 * OklabScale

max_colors == 256

convergence_threshold == OklabScale

max_iterations == 50

\* sample_all_frames(&frames, 1000)
SamplesPerFrame == 1000

\* the f32 NaN of 0.0 / 0.0; every other f32 of the quantizer is >= 0
NaN == 0 - 1

\* Err(GifPipeError::InvalidFrameData { message })
InvalidFrameData(message) ==
    [status |-> "Err", variant |-> "InvalidFrameData", message |-> message]

\* Err(GifPipeError::QuantizationFailed { message }) of kmeans_oklab
QuantizationFailed ==
    [status |-> "Err", variant |-> "QuantizationFailed",
     message |-> "No samples provided for k-means clustering"]

\* a.partial_cmp(b).unwrap() on a NaN
PartialCmpPanic ==
    [status |-> "Panic", variant |-> "",
     message |-> "called Option::unwrap() on a None value"]

\* F applied to every element of seq, in order; equal elements are
\* evaluated once
MapEach(F(_), seq) ==
    LET table == {<<x, F(x)>> : x \in {seq[i] : i \in 1..Len(seq)}}
    IN  [i \in 1..Len(seq) |-> (CHOOSE e \in table : e[1] = seq[i])[2]] \o <<>>

\* F(lo) + .. + F(hi), split in halves to keep the evaluation shallow
RECURSIVE SumRange(_, _, _)
SumRange(F(_), lo, hi) ==
    IF lo > hi THEN 0
    ELSE IF lo = hi THEN F(lo)
    ELSE LET mid == (lo + hi) \div 2
         IN  SumRange(F, lo, mid) + SumRange(F, mid + 1, hi)

\* seqs[lo] \o .. \o seqs[hi]: Vec::extend over the frames in order
RECURSIVE ExtendAll(_, _, _)
ExtendAll(seqs, lo, hi) ==
    IF lo > hi THEN <<>>
    ELSE IF lo = hi THEN seqs[lo]
    ELSE LET mid == (lo + hi) \div 2
         IN  ExtendAll(seqs, lo, mid) \o ExtendAll(seqs, mid + 1, hi)

\* the sum of F over a small set
RECURSIVE SumOver(_, _)
SumOver(F(_), S) ==
    IF S = {} THEN 0
    ELSE LET x == CHOOSE x \in S : TRUE
         IN  F(x) + SumOver(F, S \ {x})

\* the largest element of a non-empty set of numbers
MaxOf(S) == CHOOSE x \in S : \A y \in S : y <= x

\* m2_quantize_for_cube: one RGBA frame to RGB, alpha dropped, over
\* rgba.len() / 4 pixels
RgbaToRgb(rgba) ==
    LET pixel_count == Len(rgba) \div 4
    IN  [j \in 1..(3 * pixel_count) |-> rgba[4 * ((j - 1) \div 3) + ((j - 1) % 3) + 1]]
            \o <<>>

\* [frame[rgb_idx], frame[rgb_idx + 1], frame[rgb_idx + 2]], rgb_idx = i * 3
PixelRgb(frame, i) == <<frame[3 * i + 1], frame[3 * i + 2], frame[3 * i + 3]>>

\* the outcome of the thread-local generator: the j-th of n shuffled or
\* chosen positions, from 0. The generator is seeded by the operating
\* system; of the orders it can produce the model takes the rotations
Drawn(seed, n, j) == (seed + j) % n

\* sample_frame_pixels, for a frame whose length is a multiple of 3: the
\* first max_samples.min(pixel_count) pixels in shuffled order
SampleFramePixels(frame, max_samples, seed) ==
    LET pixel_count == Len(frame) \div 3
    IN  [j \in 1..Min(max_samples, pixel_count) |->
            PixelRgb(frame, Drawn(seed, pixel_count, j - 1))] \o <<>>

\* sample_all_frames: the samples of the frames in order, or the error of
\* a frame whose length is no multiple of 3
SampleAllFrames(frames, seed) ==
    LET Samples(frame) == SampleFramePixels(frame, SamplesPerFrame, seed)
    IN  IF \E k \in 1..Len(frames) : Len(frames[k]) % 3 # 0
        THEN InvalidFrameData("Frame length not divisible by 3")
        ELSE [status |-> "Ok",
              samples |-> ExtendAll(MapEach(Samples, frames), 1, Len(frames))]

\* samples.choose_multiple(&mut rng, k)
ChooseMultiple(samples, k, seed) ==
    [j \in 1..k |-> samples[Drawn(seed, Len(samples), j - 1) + 1]] \o <<>>

\* kmeans_oklab: k and the initial centroids
InitialCentroids(samples, seed) ==
    LET k == Min(max_colors, Len(samples))
    IN  MapEach(RgbToOklab, ChooseMultiple(samples, k, seed))

\* enumerate().map(delta_e_oklab).min_by(partial_cmp): the index, from 0,
\* of the first entry at the least distance (a later one in the variant)
ClosestIdx_LastMinimum(lab, entries) ==
    LET d == {<<DeltaESquared(lab, entries[i]), i>> : i \in 1..Len(entries)}
        least == CHOOSE x \in {e[1] : e \in d} : \A e \in d : x <= e[1]
        at_least == {e[2] : e \in {e \in d : e[1] = least}}
    IN  MaxOf(at_least) - 1

ClosestIdx(lab, entries) ==
    LET d == {<<DeltaESquared(lab, entries[i]), i>> : i \in 1..Len(entries)}
        least == CHOOSE x \in {e[1] : e \in d} : \A e \in d : x <= e[1]
        at_least == {e[2] : e \in {e \in d : e[1] = least}}
    IN  (CHOOSE i \in at_least : \A j \in at_least : i <= j) - 1

\* one pass of the for loop of kmeans_oklab: assign every sample to its
\* closest centroid, move the centroids of the non-empty clusters to the
\* mean of their samples; samples of one colour share their cluster
KMeansIteration(samples, cents) ==
    LET colors == {samples[j] : j \in 1..Len(samples)}
        lab == {<<c, RgbToOklab(c)>> : c \in colors}
        Lab(c) == (CHOOSE e \in lab : e[1] = c)[2]
        closest == {<<c, ClosestIdx(Lab(c), cents)>> : c \in colors}
        count == {<<c, Cardinality({j \in 1..Len(samples) : samples[j] = c})>> :
                     c \in colors}
        Count(c) == (CHOOSE e \in count : e[1] = c)[2]
        Cluster(i) == {c \in colors : <<c, i - 1>> \in closest}
        Mean(i, axis) ==
            LET Weighted(c) == Count(c) * Lab(c)[axis]
            IN  SumOver(Weighted, Cluster(i)) \div SumOver(Count, Cluster(i))
        new_centroids ==
            [i \in 1..Len(cents) |->
                IF Cluster(i) = {} THEN cents[i]
                ELSE <<Mean(i, 1), Mean(i, 2), Mean(i, 3)>>] \o <<>>
        movements == {DeltaEOklab(cents[i], new_centroids[i]) :
                         i \in {i \in 1..Len(cents) : Cluster(i) # {}}}
    IN  [centroids |-> new_centroids,
         clusters |-> [i \in 1..Len(cents) |-> SumOver(Count, Cluster(i))] \o <<>>,
         max_movement |-> MaxOf(movements \cup {0})]

\* map_frame_to_palette, for a frame whose length is a multiple of 3: the
\* index of the closest palette entry for every pixel, as u8, and the mean
\* distance (0.0 / 0.0 for a frame without pixels)
MapFrameToPalette(frame_rgb, palette) ==
    LET pixel_count == Len(frame_rgb) \div 3
        palette_oklab == MapEach(RgbToOklab, palette)
        colors == {PixelRgb(frame_rgb, i) : i \in 0..(pixel_count - 1)}
        best == {<<c, ClosestIdx(RgbToOklab(c), palette_oklab)>> : c \in colors}
        Best(c) == (CHOOSE e \in best : e[1] = c)[2]
        Error(c) ==
            Cardinality({i \in 0..(pixel_count - 1) : PixelRgb(frame_rgb, i) = c})
                * DeltaEOklab(RgbToOklab(c), palette_oklab[Best(c) + 1])
    IN  [indices |-> [i \in 1..pixel_count |-> Best(PixelRgb(frame_rgb, i - 1)) % 256]
                        \o <<>>,
         avg_error |-> IF pixel_count = 0 THEN NaN
                       ELSE SumOver(Error, colors) \div pixel_count]

\* build_histogram: the bins that are not zero, as <<index, count>>
BuildHistogram(frame_indices) ==
    {<<v, Cardinality({i \in 1..Len(frame_indices) : frame_indices[i] = v})>> :
        v \in {frame_indices[i] : i \in 1..Len(frame_indices)}}

\* histogram_similarity, in units of 1 / OklabScale; the variant leaves the
\* intersection undivided
HistogramSimilarity_Undivided(hist1, hist2) ==
    LET Shared(e) ==
            LET other == {o \in hist2 : o[1] = e[1]}
            IN  IF other = {} THEN 0 ELSE Min(e[2], (CHOOSE o \in other : TRUE)[2])
    IN  SumOver(Shared, hist1) * OklabScale

HistogramSimilarity(hist1, hist2) ==
    LET Bin(e) == e[2]
        total1 == SumOver(Bin, hist1)
        total2 == SumOver(Bin, hist2)
        Shared(e) ==
            LET other == {o \in hist2 : o[1] = e[1]}
            IN  IF other = {} THEN 0 ELSE Min(e[2], (CHOOSE o \in other : TRUE)[2])
    IN  IF total1 = 0 \/ total2 = 0 THEN 0
        ELSE (SumOver(Shared, hist1) * OklabScale)
                 \div (IF total1 > total2 THEN total1 ELSE total2)

\* calculate_palette_stability: the mean similarity of consecutive planes
\* (0.0 / 0.0 when there is no pair); the variant divides by the number of
\* planes
CalculatePaletteStability_OverPlanes(planes) ==
    LET histograms == MapEach(BuildHistogram, planes)
        Score(i) == HistogramSimilarity(histograms[i - 1], histograms[i])
    IN  IF Len(planes) < 2 THEN NaN
        ELSE SumRange(Score, 2, Len(planes)) \div Len(planes)

CalculatePaletteStability(planes) ==
    LET histograms == MapEach(BuildHistogram, planes)
        Score(i) == HistogramSimilarity(histograms[i - 1], histograms[i])
    IN  IF Len(planes) < 2 THEN NaN
        ELSE SumRange(Score, 2, Len(planes)) \div (Len(planes) - 1)

\* delta_e_values.iter().sum::<f32>() / 81.0
MeanDeltaE(errors) ==
    LET At(i) == errors[i]
    IN  IF \E i \in 1..Len(errors) : errors[i] = NaN THEN NaN
        ELSE SumRange(At, 1, Len(errors)) \div 81

\* sort_by(partial_cmp().unwrap()) compares every element of a vector of
\* two or more, and panics on a NaN
SortPanics(errors) == Len(errors) >= 2 /\ \E i \in 1..Len(errors) : errors[i] = NaN

\* calculate_p95 when the sort does not panic: sorted[idx], idx from 0,
\* idx = ((len as f32 * 0.95) as usize).min(len - 1); the variant takes
\* the last of the sorted values
CalculateP95_Last(errors) ==
    IF Len(errors) = 0 THEN 0 ELSE MaxOf({errors[i] : i \in 1..Len(errors)})

CalculateP95(errors) ==
    LET sorted_idx == Min((Len(errors) * 95) \div 100, Len(errors) - 1)
        values == {errors[i] : i \in 1..Len(errors)}
        Below(v) == Cardinality({i \in 1..Len(errors) : errors[i] < v})
        UpTo(v) == Cardinality({i \in 1..Len(errors) : errors[i] <= v})
    IN  IF Len(errors) = 0 THEN 0
        ELSE CHOOSE v \in values : Below(v) <= sorted_idx /\ sorted_idx < UpTo(v)

\* global_palette_rgb.iter().flat_map(|rgb| vec![rgb[0], rgb[1], rgb[2]]);
\* the variant leaves out the last entry
GlobalPaletteBytes_DropLast(palette) ==
    [i \in 1..(3 * (Len(palette) - 1)) |-> palette[(i + 2) \div 3][((i - 1) % 3) + 1]]
        \o <<>>

GlobalPaletteBytes(palette) ==
    [i \in 1..(3 * Len(palette)) |-> palette[(i + 2) \div 3][((i - 1) % 3) + 1]] \o <<>>

\* Ok(QuantizedCubeData { .. })
QuantizedCubeData(palette, planes, errors) ==
    [status |-> "Ok", variant |-> "", message |-> "",
     width |-> 81,
     height |-> 81,
     global_palette_rgb |-> GlobalPaletteBytes(palette),
     indexed_frames |-> planes,
     delays_cs |-> Repeat(4, 81),
     palette_stability |-> CalculatePaletteStability(planes),
     mean_delta_e |-> MeanDeltaE(errors),
     p95_delta_e |-> CalculateP95(errors),
     attention_maps |-> <<>>]

---------------------------------------------------------------------------
(* m2_quantize_for_cube: inputs *)

RedPixel == <<255, 0, 0, 255>>

BlackPixel == <<0, 0, 0, 255>>

WhitePixel == <<255, 255, 255, 255>>

\* an RGBA frame of n pixels of one colour
SolidFrame(pixel, n) == [i \in 1..(4 * n) |-> pixel[((i - 1) % 4) + 1]] \o <<>>

\* the 81 x 81 x 4 = 26244 bytes of a frame of the expected size, all red
RedFrame == SolidFrame(RedPixel, 81 * 81)

\* a frame of the expected size, black and white pixels in turn
CheckerFrame ==
    [i \in 1..(4 * 81 * 81) |->
        IF ((i - 1) \div 4) % 2 = 0 THEN BlackPixel[((i - 1) % 4) + 1]
        ELSE WhitePixel[((i - 1) % 4) + 1]] \o <<>>

\* the frame buffers by name: no byte, three bytes, one pixel, one pixel and
\* a stray byte, two pixels, and two frames of the expected size
FrameStore ==
    [ empty |-> <<>>,
      three_bytes |-> <<255, 0, 0>>,
      red |-> RedPixel,
      black |-> BlackPixel,
      white |-> WhitePixel,
      red_stray |-> RedPixel \o <<7>>,
      black_white |-> BlackPixel \o WhitePixel,
      red_frame |-> RedFrame,
      checker_frame |-> CheckerFrame ]

\* the frames of the expected size
FullFrames == {"red_frame", "checker_frame"}

\* the frames of other sizes
SmallFrames == DOMAIN FrameStore \ FullFrames

UniformCube(frame, n) == [k \in 1..n |-> frame]

\* the frame counts next to 81
OtherFrameCounts == {0, 80, 82}

\* where a cube holds a frame unlike the others
SpecialPositions == {1, 81}

RgbaCubes ==
    {UniformCube(f, 81) : f \in SmallFrames \cup FullFrames}
        \cup {UniformCube("red", n) : n \in OtherFrameCounts}
        \cup {[UniformCube(base, 81) EXCEPT ![p] = f] :
                 base \in {"black", "red"}, f \in SmallFrames,
                 p \in SpecialPositions}

---------------------------------------------------------------------------
(* m2_quantize_for_cube and quantize_for_cube, one action per step *)

InitQuant ==
    /\ frames_81_rgba \in RgbaCubes
    /\ rng \in 0..MaxSeed
    /\ centroids = <<>>
    /\ clusters = <<>>
    /\ iteration = 0
    /\ global_palette_rgb = <<>>
    /\ indexed_frames = <<>>
    /\ delta_e_values = <<>>
    /\ earlier = <<>>
    /\ pc = "check_frame_count"
    /\ idx = 0
    /\ gif_bytes = <<>>
    /\ result = Pending
    /\ blocks = <<>>
    /\ NoCubeCall
    /\ NoGifCall

\* frames_81_rgba.len() != 81 is rejected (the variant rejects more than 81)
FramesCountOk_AtMost(frames) == Len(frames) <= 81

FramesCountOk(frames) == Len(frames) = 81

\* if frames_81_rgba.len() != 81 { return Err(InvalidFrameData { .. }) }
CheckFrameCount ==
    /\ pc = "check_frame_count"
    /\ IF ~FramesCountOk(frames_81_rgba)
       THEN pc' = "quant_failed" /\ result' = InvalidFrameData("Expected 81 frames")
       ELSE pc' = "sample_all_frames" /\ result' = result
    /\ UNCHANGED <<idx, gif_bytes, blocks, cube_vars, gif_vars, quant_vars>>

\* let frames_rgb = frames_81_rgba.iter().map(..).collect()
FramesRgb(frames) ==
    LET Rgb(name) == RgbaToRgb(FrameStore[name])
    IN  MapEach(Rgb, frames)

\* self.sample_all_frames(&frames, 1000) on the converted frames
AllSamples(frames, seed) == SampleAllFrames(FramesRgb(frames), seed)

\* let all_samples = self.sample_all_frames(&frames, 1000)?
SampleAll ==
    /\ pc = "sample_all_frames"
    /\ \E sampled \in {AllSamples(frames_81_rgba, rng)} :
           IF sampled.status = "Ok"
           THEN pc' = "kmeans_init" /\ result' = result
           ELSE pc' = "quant_failed" /\ result' = sampled
    /\ UNCHANGED <<idx, gif_bytes, blocks, cube_vars, gif_vars, quant_vars>>

\* kmeans_oklab: the test for samples and the initial centroids
KMeansInit ==
    /\ pc = "kmeans_init"
    /\ \E all_samples \in {AllSamples(frames_81_rgba, rng).samples} :
           IF all_samples = <<>>
           THEN /\ centroids' = centroids
                /\ pc' = "quant_failed"
                /\ result' = QuantizationFailed
           ELSE /\ centroids' = InitialCentroids(all_samples, rng)
                /\ pc' = "kmeans_iteration"
                /\ result' = result
    /\ iteration' = 0
    /\ UNCHANGED <<frames_81_rgba, rng, clusters, global_palette_rgb,
                   indexed_frames, delta_e_values, earlier>>
    /\ UNCHANGED <<idx, gif_bytes, blocks, cube_vars, gif_vars>>

\* one pass over the samples of the call
KMeansPassOf(frames, seed, cents) ==
    KMeansIteration(AllSamples(frames, seed).samples, cents)

\* kmeans_oklab: one pass of for iteration in 0..self.max_iterations, left
\* by break once max_movement < convergence_threshold; iteration counts
\* the passes made
KMeansPass ==
    /\ pc = "kmeans_iteration"
    /\ \E pass \in {KMeansPassOf(frames_81_rgba, rng, centroids)} :
           /\ centroids' = pass.centroids
           /\ clusters' = pass.clusters
           /\ iteration' = iteration + 1
           /\ IF pass.max_movement < convergence_threshold
                 \/ iteration + 1 = max_iterations
              THEN pc' = "kmeans_palette"
              ELSE pc' = "kmeans_iteration"
    /\ UNCHANGED <<frames_81_rgba, rng, global_palette_rgb, indexed_frames,
                   delta_e_values, earlier>>
    /\ UNCHANGED <<idx, gif_bytes, result, blocks, cube_vars, gif_vars>>

\* kmeans_oklab: every centroid back to RGB, in centroid order
KMeansPalette ==
    /\ pc = "kmeans_palette"
    /\ global_palette_rgb' = MapEach(OklabToRgb, centroids)
    /\ pc' = "quantize_frames"
    /\ UNCHANGED <<frames_81_rgba, rng, centroids, clusters, iteration,
                   indexed_frames, delta_e_values, earlier>>
    /\ UNCHANGED <<idx, gif_bytes, result, blocks, cube_vars, gif_vars>>

\* frames.frames_rgb.iter().enumerate(): the frame of the k-th pass (the
\* variant walks the frames from the last to the first)
FrameAt_Reversed(frames, k) == frames[Len(frames) + 1 - k]

FrameAt(frames, k) == frames[k]

\* for (idx, frame) in frames.frames_rgb.iter().enumerate(): the plane and
\* the error of every frame, pushed in the order of the passes
QuantizeAll(frames, palette) ==
    LET Quantized(frame) == MapFrameToPalette(frame, palette)
        passes == [k \in 1..Len(frames) |-> FrameAt(frames, k)] \o <<>>
        quantized == MapEach(Quantized, passes)
    IN  [indexed_frames |-> [k \in 1..Len(passes) |-> quantized[k].indices] \o <<>>,
         delta_e_values |-> [k \in 1..Len(passes) |-> quantized[k].avg_error] \o <<>>]

\* the loop over the frames, or the error of map_frame_to_palette for a
\* frame whose length is no multiple of 3
QuantizeFrames ==
    /\ pc = "quantize_frames"
    /\ \E frames_rgb \in {FramesRgb(frames_81_rgba)} :
           IF \E k \in 1..Len(frames_rgb) : Len(frames_rgb[k]) % 3 # 0
           THEN /\ pc' = "quant_failed"
                /\ result' = InvalidFrameData("RGB frame length not divisible by 3")
                /\ UNCHANGED <<indexed_frames, delta_e_values>>
           ELSE \E quantized \in {QuantizeAll(frames_rgb, global_palette_rgb)} :
                    /\ indexed_frames' = quantized.indexed_frames
                    /\ delta_e_values' = quantized.delta_e_values
                    /\ pc' = "cube_metrics"
                    /\ result' = result
    /\ UNCHANGED <<frames_81_rgba, rng, centroids, clusters, iteration,
                   global_palette_rgb, earlier>>
    /\ UNCHANGED <<idx, gif_bytes, blocks, cube_vars, gif_vars>>

\* the metrics and Ok(QuantizedCubeData { .. }), into which indexed_frames
\* is moved; the sort of calculate_p95 panics on a NaN
ReturnCube ==
    /\ pc = "cube_metrics"
    /\ IF SortPanics(delta_e_values)
       THEN /\ pc' = "quant_panicked"
            /\ result' = PartialCmpPanic
            /\ indexed_frames' = indexed_frames
       ELSE /\ pc' = "cube_returned"
            /\ result' = QuantizedCubeData(global_palette_rgb, indexed_frames,
                                           delta_e_values)
            /\ indexed_frames' = <<>>
    /\ UNCHANGED <<frames_81_rgba, rng, centroids, clusters, iteration,
                   global_palette_rgb, delta_e_values, earlier>>
    /\ UNCHANGED <<idx, gif_bytes, blocks, cube_vars, gif_vars>>

\* a second call with the same frames: the generator has moved on, and the
\* result of the first call is kept for comparison
QuantizeAgain ==
    /\ pc = "cube_returned"
    /\ earlier = <<>>
    /\ earlier' = <<result>>
    /\ rng' \in 0..MaxSeed
    /\ centroids' = <<>>
    /\ clusters' = <<>>
    /\ iteration' = 0
    /\ global_palette_rgb' = <<>>
    /\ indexed_frames' = <<>>
    /\ delta_e_values' = <<>>
    /\ pc' = "check_frame_count"
    /\ result' = Pending
    /\ UNCHANGED <<frames_81_rgba, idx, gif_bytes, blocks, cube_vars, gif_vars>>

NextQuant ==
    \/ CheckFrameCount
    \/ SampleAll
    \/ KMeansInit
    \/ KMeansPass
    \/ KMeansPalette
    \/ QuantizeFrames
    \/ ReturnCube
    \/ QuantizeAgain

SpecQuant == InitQuant /\ [][NextQuant]_vars

\* ENABLED <<KMeansPass>>_vars: the call is in the loop (a pass always
\* counts iteration up)
KMeansPassEnabled == pc = "kmeans_iteration"

\* the thread runs on: weak fairness of KMeansPass, WF_vars(KMeansPass),
\* written out with KMeansPassEnabled for ENABLED <<KMeansPass>>_vars
SpecQuantFair ==
    SpecQuant /\ ([]<>(~KMeansPassEnabled) \/ []<><<KMeansPass>>_vars)

\* m2_quantize_for_cube returned Ok(QuantizedCubeData)
CubeReturned == pc = "cube_returned" /\ result.status = "Ok"

\* the three entry points: one call of an encoder, or calls of the quantizer
InitPipeline == InitEncoders \/ InitQuant

NextPipeline == NextEncoders \/ NextQuant

SpecPipeline == InitPipeline /\ [][NextPipeline]_vars

---------------------------------------------------------------------------
(* Properties of the quantizer and of the pipeline *)

\* the image data blocks of the output, in stream order
ImageDataBlocks == SelectSeq(blocks, LAMBDA b : b.kind = "lzw")

\* C13: frame order is kept end to end. The k-th plane the quantizer
\* returns is the plane of the k-th input frame under the global palette;
\* the k-th image data block of encode_from_cube_data is the encoding of
\* indexed_frames[k], for all 81 frames; and every image data block that
\* encode_gif emits is the encoding of the frame at its position.
C13_FrameOrderPreserved ==
    /\ CubeReturned =>
          LET Plane(name) ==
                  MapFrameToPalette(RgbaToRgb(FrameStore[name]),
                                    global_palette_rgb).indices
          IN  result.indexed_frames = MapEach(Plane, frames_81_rgba)
    /\ Succeeded =>
          /\ Len(ImageDataBlocks) = 81
          /\ \A k \in 0..80 :
                /\ ImageDataBlocks[k + 1].frame = k
                /\ BlockBytes(ImageDataBlocks[k + 1])
                      = LzwCompressedBytes(cube.indexed_frames[k + 1])
    /\ GifSucceeded =>
          \A n \in 1..Len(ImageDataBlocks) :
              /\ ImageDataBlocks[n].frame = n - 1
              /\ BlockBytes(ImageDataBlocks[n])
                    = LzwDataBytes(quantized_set.frames_indices[n], optimized_palette)

\* a returned cube whose last frame, of two pixels, is unlike the 80 frames
\* of one pixel before it, and so is its plane
C13_Witness ==
    /\ CubeReturned
    /\ frames_81_rgba[1] = "black"
    /\ frames_81_rgba[81] = "black_white"
    /\ Len(result.indexed_frames[1]) = 1
    /\ Len(result.indexed_frames[81]) = 2
    /\ result.indexed_frames[81][1] # result.indexed_frames[81][2]

---------------------------------------------------------------------------
(* validate_gif_bytes on candidate byte vectors *)

\* candidate vectors: a signature or none, padding, the loop pattern or
\* none, 0, 80 or 81 image separators, and a trailer, a zero or nothing
CandidateBytes ==
    { head \o Repeat(0, pad) \o loop \o Repeat(44, separators) \o tail :
          head \in {<<>>, Gif89aSignature, <<71, 73, 70, 56, 55, 97>>},
          pad \in 0..MaxPadding,
          loop \in {<<>>, NetscapePattern},
          separators \in {0, 1, 80, 81},
          tail \in {<<>>, <<59>>, <<0>>} }

InitValidate ==
    /\ gif_bytes \in CandidateBytes
    /\ pc = "validate_bytes"
    /\ idx = 0
    /\ result = Pending
    /\ blocks = <<>>
    /\ NoCubeCall
    /\ NoGifCall
    /\ NoQuantCall

\* validate_gif_bytes(gif_bytes), of the ffi crate and of the bridge
ValidateBytes ==
    /\ pc = "validate_bytes"
    /\ validation' = <<ValidateGifBytes(gif_bytes)>>
    /\ pc' = "bytes_validated"
    /\ UNCHANGED <<cube, fps_cs, loop_forever, idx, gif_bytes, result, blocks>>
    /\ UNCHANGED <<gif_vars, quant_vars>>

SpecValidate == InitValidate /\ [][ValidateBytes]_vars

\* C14: for every byte vector, also one shorter than 13 bytes, the report
\* has has_gif89a_header exactly when the first six bytes are "GIF89a",
\* has_netscape_loop exactly when "NETSCAPE2.0" occurs, frame_count equal
\* to the number of 0x2C bytes, has_trailer exactly when the last byte is
\* 0x3B, and is_valid exactly when all three hold and frame_count is 81.
C14_ReportOnAnyVector ==
    pc = "bytes_validated" =>
        LET report == validation[1]
            header == Len(gif_bytes) >= 6 /\ SubSeq(gif_bytes, 1, 6) = Gif89aSignature
            trailer == Len(gif_bytes) >= 1 /\ gif_bytes[Len(gif_bytes)] = 59
        IN  /\ report.has_gif89a_header = header
            /\ report.has_netscape_loop = Contains(gif_bytes, NetscapePattern)
            /\ report.frame_count = CountByte(gif_bytes, 44)
            /\ report.has_trailer = trailer
            /\ report.is_valid = (/\ report.has_gif89a_header
                                  /\ report.has_netscape_loop
                                  /\ report.has_trailer
                                  /\ report.frame_count = 81)

\* the argument is a cube of 81 frames of 81 x 81 RGBA pixels
ValidCube(frames) ==
    /\ Len(frames) = 81
    /\ \A k \in 1..81 : Len(FrameStore[frames[k]]) = 4 * 81 * 81

\* C15: for a valid input cube the quantizer does not fail, and returns 81
\* index planes of 6561 indices each and a palette whose byte length is a
\* positive multiple of 3 and at most 768. The plane count and the bounds
\* of the palette hold for every cube the quantizer returns.
C15_PlanesAndPaletteSize ==
    /\ ValidCube(frames_81_rgba) => pc \notin {"quant_failed", "quant_panicked"}
    /\ CubeReturned =>
          /\ Len(result.indexed_frames) = 81
          /\ Len(result.global_palette_rgb) > 0
          /\ Len(result.global_palette_rgb) % 3 = 0
          /\ Len(result.global_palette_rgb) <= 768
          /\ ValidCube(frames_81_rgba) =>
                \A k \in 1..81 : Len(result.indexed_frames[k]) = 81 * 81

\* the checkerboard cube returned with 81 full planes and 256 entries
C15_Witness ==
    /\ CubeReturned
    /\ ValidCube(frames_81_rgba)
    /\ frames_81_rgba[1] = "checker_frame"
    /\ Len(result.indexed_frames[81]) = 6561
    /\ Len(result.global_palette_rgb) = 768

\* the index values that occur in the planes
IndicesUsed(planes) ==
    UNION {{plane[i] : i \in 1..Len(plane)} : plane \in {planes[k] : k \in 1..Len(planes)}}

\* C16: in every cube the quantizer returns, every index of every plane is
\* below the number of entries of the returned palette (its byte length
\* divided by 3).
C16_IndicesBelowPaletteSize ==
    CubeReturned =>
        \A v \in IndicesUsed(result.indexed_frames) :
            v >= 0 /\ v < Len(result.global_palette_rgb) \div 3

\* 80 black frames and a white one: 81 entries, and the white pixel is
\* given the last of them
C16_Witness ==
    /\ CubeReturned
    /\ frames_81_rgba[81] = "white"
    /\ Len(result.global_palette_rgb) = 3 * 81
    /\ result.indexed_frames[1] = <<0>>
    /\ result.indexed_frames[81] = <<80>>

\* C17: two calls of the quantizer on the same frames return the same
\* bytes: the same palette, the same 81 planes and the same metrics. The
\* call takes no seed; its generator is seeded by the operating system.
C17_SameResultTwice ==
    (pc = "cube_returned" /\ earlier # <<>>) => result = earlier[1]

\* C18: the palette of a returned cube has as many entries as the k-means
\* pass left non-empty clusters; and a cube of 81 frames of the expected
\* size that are all (255, 0, 0) comes back with the single entry
\* (255, 0, 0) and planes of zeros.
C18_EntriesAreNonEmptyClusters ==
    CubeReturned =>
        /\ Len(result.global_palette_rgb) \div 3
              = Cardinality({i \in 1..Len(clusters) : clusters[i] > 0})
        /\ (\A k \in 1..81 : frames_81_rgba[k] = "red_frame") =>
              /\ result.global_palette_rgb = <<255, 0, 0>>
              /\ IndicesUsed(result.indexed_frames) = {0}

\* 81 frames, one of them at least not of 81 x 81 x 4 bytes
WrongFrameSize(frames) ==
    /\ Len(frames) = 81
    /\ \E k \in 1..81 : Len(FrameStore[frames[k]]) # 4 * 81 * 81

\* C19: when one of the 81 frames has a length other than 26244 bytes, the
\* call fails with an error, and does so before any centroid or palette
\* entry is built.
C19_InvalidFrameSize ==
    WrongFrameSize(frames_81_rgba) =>
        /\ centroids = <<>>
        /\ global_palette_rgb = <<>>
        /\ pc \notin {"cube_returned", "quant_panicked"}
        /\ (pc = "quant_failed" => result.status = "Err")

\* C20: a call with a number of frames other than 81 fails with the
\* frame-count error right after the test of the count: no frame is
\* sampled, no centroid is drawn or moved, no palette or plane is built.
C20_InvalidFrameCount ==
    Len(frames_81_rgba) # 81 =>
        /\ pc \in {"check_frame_count", "quant_failed"}
        /\ centroids = <<>>
        /\ clusters = <<>>
        /\ iteration = 0
        /\ global_palette_rgb = <<>>
        /\ indexed_frames = <<>>
        /\ (pc = "quant_failed" => result = InvalidFrameData("Expected 81 frames"))

\* 80 frames, rejected
C20_Witness ==
    /\ pc = "quant_failed"
    /\ Len(frames_81_rgba) = 80
    /\ result = InvalidFrameData("Expected 81 frames")
    /\ centroids = <<>>

\* C21 as stated: in every returned cube mean_delta_e <= p95_delta_e.
C21_Original ==
    CubeReturned => result.mean_delta_e <= result.p95_delta_e

\* C21, amended: in every returned cube p95_delta_e is the 77th smallest of
\* the 81 per-frame mean errors (at least 77 of them are no larger, at
\* least 5 no smaller), and mean_delta_e is their sum divided by 81. The
\* mean may exceed p95_delta_e when fewer than 5 frames carry the error.
C21_P95OfFrameErrors ==
    CubeReturned =>
        LET At(i) == delta_e_values[i]
            sum == SumRange(At, 1, 81)
        IN  /\ Len(delta_e_values) = 81
            /\ \E i \in 1..81 : delta_e_values[i] = result.p95_delta_e
            /\ Cardinality({i \in 1..81 : delta_e_values[i] <= result.p95_delta_e}) >= 77
            /\ Cardinality({i \in 1..81 : delta_e_values[i] >= result.p95_delta_e}) >= 5
            /\ 81 * result.mean_delta_e <= sum
            /\ sum < 81 * (result.mean_delta_e + 1)

\* 80 black frames mapped without error and one red frame with an error:
\* p95_delta_e is 0.0 and mean_delta_e is not
C21_Witness ==
    /\ CubeReturned
    /\ frames_81_rgba[1] = "black"
    /\ frames_81_rgba[81] = "red"
    /\ delta_e_values[1] = 0
    /\ delta_e_values[81] > 0
    /\ result.p95_delta_e = 0
    /\ result.mean_delta_e > 0

\* C22: in every returned cube palette_stability lies in [0, 1], and so
\* does the similarity of each of the 80 pairs of consecutive planes.
C22_StabilityInUnitInterval ==
    CubeReturned =>
        /\ result.palette_stability >= 0
        /\ result.palette_stability <= OklabScale
        /\ \A i \in 1..80 :
              LET similarity ==
                      HistogramSimilarity(BuildHistogram(result.indexed_frames[i]),
                                          BuildHistogram(result.indexed_frames[i + 1]))
              IN  similarity >= 0 /\ similarity <= OklabScale

\* 80 planes of one index and a last plane of two: the last pair shares
\* half of the larger histogram, and the mean lies strictly inside [0, 1]
C22_Witness ==
    /\ CubeReturned
    /\ Len(result.indexed_frames[80]) = 1
    /\ Len(result.indexed_frames[81]) = 2
    /\ HistogramSimilarity(BuildHistogram(result.indexed_frames[80]),
                           BuildHistogram(result.indexed_frames[81])) = OklabScale \div 2
    /\ result.palette_stability > 0
    /\ result.palette_stability < OklabScale

\* the 81 frames of the argument are the same
StaticCube(frames) == Len(frames) = 81 /\ \A k \in 1..81 : frames[k] = frames[1]

\* C23: the cube returned for 81 identical frames has 81 identical planes,
\* and its palette_stability is exactly 1.0.
C23_StaticCube ==
    (CubeReturned /\ StaticCube(frames_81_rgba)) =>
        /\ \A k \in 1..81 : result.indexed_frames[k] = result.indexed_frames[1]
        /\ result.palette_stability = OklabScale

\* 81 times the frame of a black and a white pixel, returned with planes
\* that use two indices
C23_Witness ==
    /\ CubeReturned
    /\ StaticCube(frames_81_rgba)
    /\ frames_81_rgba[1] = "black_white"
    /\ result.indexed_frames[1][1] # result.indexed_frames[1][2]
    /\ result.indexed_frames[81] = result.indexed_frames[1]
    /\ result.palette_stability = OklabScale

---------------------------------------------------------------------------
(* Properties of the metrics and of encode_gif *)

\* no frame, no palette byte, more than 256 colours, or a frame that does
\* not hold 81 * 81 indices
RejectedSet(qs) ==
    \/ Len(qs.frames_indices) = 0
    \/ Len(qs.palette_rgb) = 0
    \/ Len(qs.palette_rgb) > 3 * 256
    \/ \E k \in 1..Len(qs.frames_indices) : Len(qs.frames_indices[k]) # 81 * 81

\* C24: for a set without frames, without palette, with more than 256
\* colours or with a frame of another size than 81 * 81, encode_gif returns
\* an error value: it does not panic and writes no byte.
C24_ValidationErrors ==
    RejectedSet(quantized_set) =>
        /\ pc \in {"validate_quantized_set", "failed"}
        /\ gif_bytes = <<>>
        /\ (pc = "failed" =>
               result.status = "Err" /\ result.variant = "ValidationError")

\* two frames, the second of one index: rejected for its size
C24_Witness ==
    /\ pc = "failed"
    /\ Len(quantized_set.frames_indices) = 2
    /\ Len(quantized_set.frames_indices[1]) = 81 * 81
    /\ quantized_set.frames_indices[2] = <<0>>
    /\ result = FramePixelsMismatch
    /\ gif_bytes = <<>>

\* C25: the k-means loop ends. It makes at most 50 passes; after a pass
\* whose largest centroid movement is below 1.0, and after the 50th pass,
\* the loop is left, and after any other pass it goes on; a call that is in
\* the loop gets to the conversion of the centroids.
C25_KMeansTerminates ==
    /\ [](iteration >= 0 /\ iteration <= 50)
    /\ [][pc = "kmeans_iteration" =>
             LET max_movement ==
                     KMeansPassOf(frames_81_rgba, rng, centroids).max_movement
             IN  /\ iteration' = iteration + 1
                 /\ IF max_movement < OklabScale \/ iteration' = 50
                    THEN pc' = "kmeans_palette"
                    ELSE pc' = "kmeans_iteration"]_vars
    /\ (pc = "kmeans_iteration" ~> pc = "kmeans_palette")

\* the loop left after one pass that put the samples of a black and white
\* cube into two clusters
C25_Witness ==
    /\ pc = "kmeans_palette"
    /\ iteration = 1
    /\ frames_81_rgba[1] = "black_white"
    /\ Cardinality({i \in 1..Len(clusters) : clusters[i] > 0}) = 2

\* the index, from 0, of an entry at the least distance from lab that has
\* no entry at that distance before it
LowestClosest(lab, entries) ==
    LET D(j) == DeltaESquared(lab, entries[j + 1])
        last == Len(entries) - 1
    IN  CHOOSE v \in 0..last :
            /\ \A j \in 0..last : D(j) >= D(v)
            /\ \A j \in 0..(v - 1) : D(j) > D(v)

\* the colours of the pixels of an RGB frame
FrameColors(frame_rgb) == {PixelRgb(frame_rgb, i) : i \in 0..(Len(frame_rgb) \div 3 - 1)}

\* C26: ties go to the lowest index. After the pass of the k-means loop,
\* cluster i holds exactly the samples for which centroid i is the first of
\* the closest initial centroids; in a returned cube every pixel has the
\* index of the first of the closest palette entries; and under a palette
\* of identical entries every pixel has index 0.
C26_LowestIndexWinsTies ==
    /\ (pc = "kmeans_palette" /\ iteration = 1) =>
          LET samples == AllSamples(frames_81_rgba, rng).samples
              initial == InitialCentroids(samples, rng)
              colors == {samples[j] : j \in 1..Len(samples)}
              first == {<<c, LowestClosest(RgbToOklab(c), initial)>> : c \in colors}
              count == {<<c, Cardinality({j \in 1..Len(samples) : samples[j] = c})>> :
                           c \in colors}
              Count(c) == (CHOOSE e \in count : e[1] = c)[2]
              Assigned(i) == {c \in colors : <<c, i - 1>> \in first}
          IN  \A i \in 1..Len(initial) : clusters[i] = SumOver(Count, Assigned(i))
    /\ CubeReturned =>
          LET palette_oklab == MapEach(RgbToOklab, global_palette_rgb)
              names == {frames_81_rgba[k] : k \in 1..81}
              Right(name) ==
                  LET frame_rgb == RgbaToRgb(FrameStore[name])
                      plane == result.indexed_frames[
                                   CHOOSE k \in 1..81 : frames_81_rgba[k] = name]
                      first == {<<c, LowestClosest(RgbToOklab(c), palette_oklab)>> :
                                   c \in FrameColors(frame_rgb)}
                  IN  \A i \in 1..Len(plane) :
                          <<PixelRgb(frame_rgb, i - 1), plane[i]>> \in first
          IN  /\ \A name \in names : Right(name)
              /\ (\A e \in 1..Len(global_palette_rgb) :
                      global_palette_rgb[e] = global_palette_rgb[1])
                     => IndicesUsed(result.indexed_frames) = {0}

\* 81 red pixels: 81 equal centroids, every sample in cluster 0, every
\* pixel at index 0
C26_Witness ==
    /\ CubeReturned
    /\ frames_81_rgba = UniformCube("red", 81)
    /\ Len(global_palette_rgb) = 81
    /\ \A e \in 1..81 : global_palette_rgb[e] = global_palette_rgb[1]
    /\ clusters[1] = 81
    /\ IndicesUsed(result.indexed_frames) = {0}

\* the delay that a graphic control extension of the output carries
DelayOf(block) == BlockBytes(block)[5] + 256 * BlockBytes(block)[6]

\* C27: every delay that encode_gif writes is one of 50..200 centiseconds,
\* whatever the attention map, and the sum of base delay and bonus never
\* overflows.
C27_FrameDelayInRange ==
    /\ result # AddOverflowPanic
    /\ \A n \in 1..Len(blocks) :
          blocks[n].kind = "gce" =>
              DelayOf(blocks[n]) >= 50 /\ DelayOf(blocks[n]) <= 200

\* the colour the written global colour table holds at an index
WrittenColor(index) ==
    SubSeq(gif_bytes, ColorTableBlock.first + 3 * index,
           ColorTableBlock.first + 3 * index + 2)

\* C28: when encode_gif succeeds, every index that occurs in a frame and
\* names an entry of the input palette_rgb finds, in the global colour table
\* written to the output, the RGB triple the input palette holds at that
\* index (palette optimisation is on, as in every encoder that can be built).
C28_IndexMeaningPreserved ==
    GifSucceeded =>
        \A index \in IndicesUsed(quantized_set.frames_indices) :
            3 * index + 3 <= Len(quantized_set.palette_rgb) =>
                WrittenColor(index) =
                    SubSeq(quantized_set.palette_rgb, 3 * index + 1, 3 * index + 3)

\* C29: when encode_gif succeeds and reports has_netscape_loop, the bytes
\* written hold the NETSCAPE2.0 application extension.
C29_NetscapeLoopReported ==
    (GifSucceeded /\ result.has_netscape_loop) =>
        Contains(gif_bytes, NetscapePattern)

\* C30: when encode_gif succeeds, the frame_count of GifInfo is the number
\* of frames written, each a graphic control extension, an image descriptor
\* and image data, also for fewer attention maps than frames.
C30_FrameCountIsFramesWritten ==
    GifSucceeded =>
        /\ Len(FrameBlocks) = 3 * result.frame_count
        /\ Len(ImageDataBlocks) = result.frame_count

====
